---- MODULE Spec2Model ----
(***************************************************************************)
(* Model of the trading-risk calculator and trade journal of               *)
(* src/src/App.jsx (the App component).                                    *)
(*                                                                         *)
(* Numbers.  The component computes with decimals; the model keeps every   *)
(* amount as a whole number of a fixed unit, and the input sets are chosen *)
(* so that every product and quotient the code forms is a whole number of  *)
(* that unit (so the arithmetic below is exact, as the code's is on these  *)
(* inputs):                                                                *)
(*   money            ticks of $0.002   ($1 = 500 ticks, 1 cent = 5 ticks) *)
(*   riskPercent      tenths of a percent       (1.0 % = 10)               *)
(*   targetRMultiple  halves                    (2.0 R = 4)                *)
(* A tick is finer than a cent so that the rounding to cents of the equity *)
(* curve (toFixed(2)) is a real rounding, and no amount of whole ticks lies*)
(* half-way between two cents.                                             *)
(***************************************************************************)
EXTENDS Integers, Sequences, FiniteSets, TLC

Dollars(d) == d * 500
Cents(c) == c * 5
Percent(p) == p * 10
RMult(r) == r * 2

\* ---- Fallback defaults (App.jsx 40-45) ----
FALLBACK_ACCOUNT_SIZE == Dollars(10000)
FALLBACK_RISK_PERCENT == Percent(1)
FALLBACK_R_MULTIPLE == RMult(2)
FALLBACK_ENTRY_PRICE == Dollars(150)
FALLBACK_ATR_STOP == Cents(450)
FALLBACK_TRADE_COST == Dollars(5)

\* ---- JavaScript helpers ----
\* x < 0 ? 0 : x
ClampNeg(x) == IF x < 0 THEN 0 ELSE x

\* amount * (riskPercent / 100), riskPercent in tenths of a percent
RiskFractionOf(amount, pct) == (amount * pct) \div 1000

\* amount * targetRMultiple, the multiple in halves
TimesR(amount, r) == (amount * r) \div 2

\* parseFloat(x.toFixed(2)): the nearest whole cent
ToFixed2(x) == ((x + 2) \div 5) * 5

\* A text typed into a number input: <<>> is the empty string '', <<n>> the
\* decimal text of n.  parseFloat('') is NaN.
EmptyText == <<>>
NumText(n) == <<n>>
IsNaNText(value) == Len(value) = 0
ParseFloat(value) == value[1]

\* ---- State of the App component (useState, App.jsx 50-80) and of its ----
\* ---- external collaborators (Firestore documents, calls in flight)   ----
VARIABLES
  configPresent,    \* Object.keys(firebaseConfig).length > 0 (module constant)
  mounted,          \* the mount effects have run
  db, userId, isAuthReady, dbError,
  loadingSettings, settingsMessage,
  accountSize, riskPercent, entryPrice, atrStopDistance, targetRMultiple,
  totalTradeCost, calcResultMessage,
  tradeHistory, saving, saveMessage,
  settingsDoc,      \* the user's settings document in the store, or NoDoc
  journalDocs,      \* the user's trade_journal collection, in creation order
  clock,            \* the store's serverTimestamp() source
  pendingAdd,       \* addDoc calls awaiting the store's answer
  pendingSetDoc,    \* setDoc calls awaiting the store's answer
  settingsSub,      \* settings onSnapshot listener: off, pending, idle, dead
  journalSub,       \* journal onSnapshot listener: off, pending, idle, dead
  saveTimers,       \* scheduled setTimeout(() => setSaveMessage(''), 5000)
  settingsTimers,   \* scheduled setTimeout(() => setSettingsMessage(''), 5000)
  ticker, newsAnalysis, loadingNews, newsError,
  newsCalls,        \* the sentiment requests made: fetches in flight, retry waits
  updateStatus,     \* per-row status: a function from record ids
  pendingUpdate,    \* updateDoc calls awaiting the store's answer
  pendingDelete,    \* deleteDoc calls awaiting the store's answer
  rowTimers         \* scheduled setTimeout(() => setUpdateStatus(... null)), by id

formVars == <<accountSize, riskPercent, entryPrice, atrStopDistance,
              targetRMultiple, totalTradeCost>>
firebaseVars == <<configPresent, mounted, db, userId, isAuthReady, dbError>>
settingsVars == <<loadingSettings, settingsMessage, settingsDoc, pendingSetDoc,
                  settingsSub, settingsTimers>>
journalVars == <<tradeHistory, saving, saveMessage, journalDocs, clock,
                 pendingAdd, journalSub, saveTimers>>
newsVars == <<ticker, newsAnalysis, loadingNews, newsError, newsCalls>>
rowVars == <<updateStatus, pendingUpdate, pendingDelete, rowTimers>>
vars == <<firebaseVars, settingsVars, formVars, calcResultMessage, journalVars,
          newsVars, rowVars>>

NoDoc == <<>>
NoUser == "null"
NoAnalysis == [text |-> ""]     \* newsAnalysis = null: sentiment?.text is undefined

\* ---- Core calculation (sizing useMemo, App.jsx 205-257) ----
\* riskAmt = accountSize * (riskPercent / 100)
RiskAmt(acct, pct) == RiskFractionOf(acct, pct)

\* a share count rounded up instead of down
SharesRoundedUp(riskAmt, atr) ==
  IF atr > 0 /\ riskAmt > 0 THEN (riskAmt + atr - 1) \div atr ELSE 0

\* if (atrStopDistance > 0 && riskAmt > 0) shares = Math.floor(riskAmt / atrStopDistance)
Shares(riskAmt, atr) ==
  IF atr > 0 /\ riskAmt > 0 THEN riskAmt \div atr ELSE 0

\* the shares > 0 branch with the cost added to the gain instead of subtracted
SizedBranchGainPlusCost(shares, atr, entry, r, cost) ==
  LET actualDollarRisk == shares * atr
      gain == TimesR(actualDollarRisk, r)
  IN [ shares |-> shares,
       riskAmt |-> actualDollarRisk,
       stopP |-> entry - atr,
       potentialGain |-> gain,
       targetRPrice |-> entry + TimesR(atr, r),
       netRisk |-> actualDollarRisk + cost,
       netGain |-> gain + cost ]

\* the shares > 0 branch
SizedBranch(shares, atr, entry, r, cost) ==
  LET actualDollarRisk == shares * atr
      gain == TimesR(actualDollarRisk, r)
  IN [ shares |-> shares,
       riskAmt |-> actualDollarRisk,
       stopP |-> entry - atr,
       potentialGain |-> gain,
       targetRPrice |-> entry + TimesR(atr, r),
       netRisk |-> actualDollarRisk + cost,
       netGain |-> gain - cost ]

\* the else branch (no share can be bought)
UnsizedBranch(shares, acct, pct, cost) ==
  LET riskAmt == RiskFractionOf(acct, pct)
  IN [ shares |-> shares,
       riskAmt |-> riskAmt,
       stopP |-> 0,
       potentialGain |-> 0,
       targetRPrice |-> 0,
       netRisk |-> riskAmt + cost,
       netGain |-> 0 - cost ]

Sizing(acct, pct, atr, entry, r, cost) ==
  LET shares == Shares(RiskAmt(acct, pct), atr)
      v == IF shares > 0 THEN SizedBranch(shares, atr, entry, r, cost)
                         ELSE UnsizedBranch(shares, acct, pct, cost)
  IN [ maxShares |-> ClampNeg(v.shares),
       totalRiskAmount |-> ClampNeg(v.riskAmt),
       stopPrice |-> ClampNeg(v.stopP),
       targetRPrice |-> v.targetRPrice,
       potentialGain |-> ClampNeg(v.potentialGain),
       totalCost |-> cost,
       netRisk |-> v.netRisk,
       netGain |-> v.netGain ]

\* the values of the current render
calc == Sizing(accountSize, riskPercent, atrStopDistance, entryPrice,
               targetRMultiple, totalTradeCost)
maxShares == calc.maxShares

\* ---- Messages ----
\* calcResultMessage is a tuple: <<>> for '', <<text>> or <<"Warning", stop, limit>>
NoMessage == <<>>
MsgConfigMissing == "Firebase configuration is missing. Journaling and persistence disabled."
MsgSetupFailed == "Firebase setup failed"
MsgInputError == "Error: Please ensure Account Size, Entry Price, and Stop Distance are positive values."
MsgSaveNotReady == "Error: Database not ready. Please wait or check connection."
MsgZeroShares == "Error: Cannot save trade with 0 maximum shares."
MsgSaved == "Trade successfully logged to Journal! (Mark its result below)"
MsgSaveFailed == "Error logging trade"
MsgSettingsNotReady == "Error: Database not ready."
MsgSavingDefaults == "Saving defaults..."
MsgDefaultsSaved == "Current inputs saved as default settings!"
MsgDefaultsFailed == "Error saving defaults"
MsgSettingsLoadFailed == "Failed to load default settings."
MsgHistoryFailed == "Failed to load trade history. Check console for details."

\* Settings documents an earlier session of the user may have left in the store
\* (saveDefaultSettings writes the four inputs as they are, a cleared 0 included)
EarlierSettingsDocs ==
  { NoDoc,
    [accountSize |-> Dollars(10000), riskPercent |-> Percent(1),
     targetRMultiple |-> 1, totalTradeCost |-> Dollars(7)] }

\* ---- Construction: the useState initial values (App.jsx 50-80) ----
Init ==
  /\ configPresent \in BOOLEAN
  /\ mounted = FALSE
  /\ db = FALSE
  /\ userId = NoUser
  /\ isAuthReady = FALSE
  /\ dbError = ""
  /\ loadingSettings = TRUE
  /\ settingsMessage = ""
  /\ accountSize = FALLBACK_ACCOUNT_SIZE
  /\ riskPercent = FALLBACK_RISK_PERCENT
  /\ entryPrice = FALLBACK_ENTRY_PRICE
  /\ atrStopDistance = FALLBACK_ATR_STOP
  /\ targetRMultiple = FALLBACK_R_MULTIPLE
  /\ totalTradeCost = FALLBACK_TRADE_COST
  /\ calcResultMessage = NoMessage
  /\ tradeHistory = <<>>
  /\ saving = FALSE
  /\ saveMessage = ""
  /\ settingsDoc \in EarlierSettingsDocs
  /\ journalDocs = <<>>
  /\ clock = 0
  /\ pendingAdd = <<>>
  /\ pendingSetDoc = <<>>
  /\ settingsSub = "off"
  /\ journalSub = "off"
  /\ saveTimers = 0
  /\ settingsTimers = 0
  /\ ticker = "QQQ"
  /\ newsAnalysis = NoAnalysis
  /\ loadingNews = FALSE
  /\ newsError = NoMessage
  /\ newsCalls = <<>>
  /\ updateStatus = <<>>
  /\ pendingUpdate = <<>>
  /\ pendingDelete = <<>>
  /\ rowTimers = <<>>

\* a readiness test that looks at the database handle alone
NotReadyDbOnly == ~db

\* !db || !userId || !isAuthReady
NotReady == ~db \/ userId = NoUser \/ ~isAuthReady

\* ---- 1. Firebase initialization and authentication (App.jsx 89-120) ----
\* The mount effect with an empty configuration.
MountConfigMissing ==
  /\ ~mounted /\ ~configPresent
  /\ mounted' = TRUE
  /\ dbError' = MsgConfigMissing
  /\ UNCHANGED <<configPresent, db, userId, isAuthReady, settingsVars, formVars,
                 calcResultMessage, journalVars, newsVars, rowVars>>

\* The mount effect with a configuration: setAuth, setDb, onAuthStateChanged.
MountConfigured ==
  /\ ~mounted /\ configPresent
  /\ mounted' = TRUE
  /\ db' = TRUE
  /\ UNCHANGED <<configPresent, userId, isAuthReady, dbError, settingsVars,
                 formVars, calcResultMessage, journalVars, newsVars, rowVars>>

\* initializeApp / getAuth / getFirestore throws: the catch block.
MountSetupThrows ==
  /\ ~mounted /\ configPresent
  /\ mounted' = TRUE
  /\ dbError' = MsgSetupFailed
  /\ UNCHANGED <<configPresent, db, userId, isAuthReady, settingsVars, formVars,
                 calcResultMessage, journalVars, newsVars, rowVars>>

\* The onAuthStateChanged callback after a successful sign-in: setUserId,
\* setIsAuthReady(true); the settings and journal effects (App.jsx 123-148,
\* 182-202) then subscribe, and each listener owes its first snapshot.
AuthStateChanged ==
  /\ mounted /\ db /\ ~isAuthReady
  /\ userId' = "uid"
  /\ isAuthReady' = TRUE
  /\ settingsSub' = "pending"
  /\ journalSub' = "pending"
  /\ UNCHANGED <<configPresent, mounted, db, dbError, loadingSettings,
                 settingsMessage, settingsDoc, pendingSetDoc, settingsTimers,
                 formVars, calcResultMessage, tradeHistory, saving, saveMessage,
                 journalDocs, clock, pendingAdd, saveTimers, newsVars, rowVars>>

\* ---- Input change handlers (App.jsx 409-427) ----
Setters == {"setAccountSize", "setRiskPercent", "setEntryPrice",
            "setAtrStopDistance", "setTargetRMultiple", "setTotalTradeCost"}

\* the min prop each InputField passes (App.jsx 659-693); undefined takes the
\* handler's default min=0
MinProp(setter) == IF setter = "setTargetRMultiple" THEN 1 ELSE 0

SetInput(setter, num) ==
  /\ accountSize' = IF setter = "setAccountSize" THEN num ELSE accountSize
  /\ riskPercent' = IF setter = "setRiskPercent" THEN num ELSE riskPercent
  /\ entryPrice' = IF setter = "setEntryPrice" THEN num ELSE entryPrice
  /\ atrStopDistance' = IF setter = "setAtrStopDistance" THEN num ELSE atrStopDistance
  /\ targetRMultiple' = IF setter = "setTargetRMultiple" THEN num ELSE targetRMultiple
  /\ totalTradeCost' = IF setter = "setTotalTradeCost" THEN num ELSE totalTradeCost

HandleInputChange(setter, value, min) ==
  /\ IF ~IsNaNText(value) /\ ParseFloat(value) >= min
       THEN SetInput(setter, ParseFloat(value)) /\ calcResultMessage' = NoMessage
       ELSE IF value = EmptyText
         THEN SetInput(setter, 0) /\ UNCHANGED calcResultMessage
         ELSE UNCHANGED <<formVars, calcResultMessage>>
  /\ UNCHANGED <<firebaseVars, settingsVars, journalVars, newsVars, rowVars>>

\* the onBlur handler
HandleCalculate ==
  /\ calcResultMessage' =
       IF accountSize <= 0 \/ entryPrice <= 0 \/ atrStopDistance <= 0
         THEN <<MsgInputError>>
         ELSE IF maxShares = 0 /\ RiskFractionOf(accountSize, riskPercent) > Cents(1)
           THEN <<"Warning", ToFixed2(atrStopDistance),
                  ToFixed2(RiskFractionOf(accountSize, riskPercent))>>
           ELSE NoMessage
  /\ UNCHANGED <<firebaseVars, settingsVars, formVars, journalVars, newsVars, rowVars>>

\* ---- Model bounds ----
MaxJournal == 2      \* trades confirmed in one run (stored or in flight)
MaxInFlight == 1     \* store calls of one kind awaiting their answer
MaxTimers == 1       \* message-clearing timers of one kind not yet fired
MaxTrades == 3       \* records of the journal the analytics are computed over
MaxRequests == 2     \* sentiment requests the user makes in one run

\* ---- Sequences ----
RECURSIVE Reverse(_)
Reverse(s) == IF s = <<>> THEN <<>> ELSE Append(Reverse(Tail(s)), Head(s))

RemoveAt(s, i) == [k \in 1..(Len(s) - 1) |-> IF k < i THEN s[k] ELSE s[k + 1]]

\* insert x after every element whose timestamp is not greater (stable)
RECURSIVE InsertByTimestamp(_, _)
InsertByTimestamp(sorted, x) ==
  IF sorted = <<>> THEN <<x>>
  ELSE IF x.timestamp < Head(sorted).timestamp THEN <<x>> \o sorted
  ELSE <<Head(sorted)>> \o InsertByTimestamp(Tail(sorted), x)

\* docs.sort((a, b) => a.timestamp.getTime() - b.timestamp.getTime())
RECURSIVE SortByTimestamp(_)
SortByTimestamp(docs) ==
  IF docs = <<>> THEN <<>>
  ELSE InsertByTimestamp(SortByTimestamp(RemoveAt(docs, Len(docs))), docs[Len(docs)])

\* the orders in which a snapshot may list the documents
Orderings(docs) ==
  { [k \in 1..Len(docs) |-> docs[p[k]]] : p \in Permutations(1..Len(docs)) }

\* ---- Exact quotients ----
\* The code's quotients (win rate, expected value, drawdown percent, realized
\* R) are kept as fractions num/den with den > 0, in lowest terms.
Abs(x) == IF x < 0 THEN 0 - x ELSE x

RECURSIVE GCD(_, _)
GCD(a, b) == IF b = 0 THEN a ELSE GCD(b, a % b)

\* n / d for d > 0
Frac(n, d) ==
  LET g == GCD(Abs(n), d)
  IN [num |-> n \div g, den |-> d \div g]

Zero == Frac(0, 1)

\* f * k
FracTimes(f, k) == Frac(f.num * k, f.den)

\* f < h/2 and f <= h/2, for a number of halves h
LessThanHalves(f, h) == 2 * f.num < h * f.den
AtMostHalves(f, h) == 2 * f.num <= h * f.den

\* ---- Equity curve (equityCurveData useMemo, App.jsx 260-320) ----
\* the realized gain or loss of one trade, as the equity walk computes it
\* (App.jsx 278-292); a Pending trade leaves it 0
CurveRealized(trade) ==
  LET grossRisk == trade.totalRiskAmount
      grossGain == TimesR(grossRisk, trade.targetRMultiple)
      totalCostValue == trade.totalCost
  IN IF trade.result = "Win" THEN grossGain - totalCostValue
     ELSE IF trade.result = "Loss" THEN 0 - (grossRisk + totalCostValue)
     ELSE IF trade.result = "Scratch" THEN 0 - totalCostValue
     ELSE 0

\* the first point of the curve (App.jsx 267-273)
StartPoint(acct) ==
  [tradeNumber |-> 0, equity |-> acct, type |-> "Start", gain |-> 0,
   highWaterMark |-> acct]

\* the walk before the first trade (App.jsx 263-273)
WalkStart(acct) ==
  [currentEquity |-> acct, highWaterMark |-> acct, maxDrawdownDollar |-> 0,
   curve |-> <<StartPoint(acct)>>]

\* a walk that numbers its points by the count of closed trades so far
WalkStepCountsClosed(w, trade, tradeNumber) ==
  IF trade.result # "Pending"
    THEN LET equity == w.currentEquity + CurveRealized(trade)
             hwm == IF equity > w.highWaterMark THEN equity ELSE w.highWaterMark
             drawdown == hwm - equity
         IN [currentEquity |-> equity,
             highWaterMark |-> hwm,
             maxDrawdownDollar |->
               IF drawdown > w.maxDrawdownDollar THEN drawdown
                                                 ELSE w.maxDrawdownDollar,
             curve |-> Append(w.curve,
               [tradeNumber |-> Len(w.curve),
                equity |-> ToFixed2(equity),
                ticker |-> trade.ticker,
                result |-> trade.result,
                gain |-> ToFixed2(CurveRealized(trade)),
                highWaterMark |-> ToFixed2(hwm)])]
    ELSE w

\* a walk that skips only the trades still to be marked, but never raises the
\* high-water mark
WalkStepNoRaise(w, trade, tradeNumber) ==
  IF trade.result # "Pending"
    THEN LET equity == w.currentEquity + CurveRealized(trade)
             drawdown == w.highWaterMark - equity
         IN [currentEquity |-> equity,
             highWaterMark |-> w.highWaterMark,
             maxDrawdownDollar |->
               IF drawdown > w.maxDrawdownDollar THEN drawdown
                                                 ELSE w.maxDrawdownDollar,
             curve |-> Append(w.curve,
               [tradeNumber |-> tradeNumber,
                equity |-> ToFixed2(equity),
                ticker |-> trade.ticker,
                result |-> trade.result,
                gain |-> ToFixed2(CurveRealized(trade)),
                highWaterMark |-> ToFixed2(w.highWaterMark)])]
    ELSE w

\* one iteration of chronologicalTrades.forEach (App.jsx 277-315)
WalkStep(w, trade, tradeNumber) ==
  IF trade.result # "Pending"
    THEN LET equity == w.currentEquity + CurveRealized(trade)
             hwm == IF equity > w.highWaterMark THEN equity ELSE w.highWaterMark
             drawdown == hwm - equity
         IN [currentEquity |-> equity,
             highWaterMark |-> hwm,
             maxDrawdownDollar |->
               IF drawdown > w.maxDrawdownDollar THEN drawdown
                                                 ELSE w.maxDrawdownDollar,
             curve |-> Append(w.curve,
               [tradeNumber |-> tradeNumber,
                equity |-> ToFixed2(equity),
                ticker |-> trade.ticker,
                result |-> trade.result,
                gain |-> ToFixed2(CurveRealized(trade)),
                highWaterMark |-> ToFixed2(hwm)])]
    ELSE w

\* the walk after the first n trades of the chronological list
RECURSIVE WalkAfter(_, _, _)
WalkAfter(chronologicalTrades, acct, n) ==
  IF n = 0 THEN WalkStart(acct)
  ELSE WalkStep(WalkAfter(chronologicalTrades, acct, n - 1),
                chronologicalTrades[n], n)

\* the curve that ignores whether the history is empty
EquityCurveAlwaysStarts(history, acct) ==
  LET w == WalkAfter(Reverse(history), acct, Len(history))
  IN [curve |-> w.curve, maxDrawdownDollar |-> w.maxDrawdownDollar]

\* the memo's value: the curve array and its maxDrawdownDollar property; the
\* empty array has no such property (undefined, which || 0 reads as 0)
EquityCurve(history, acct) ==
  IF Len(history) = 0
    THEN [curve |-> <<>>, maxDrawdownDollar |-> 0]
    ELSE LET w == WalkAfter(Reverse(history), acct, Len(history))
         IN [curve |-> w.curve, maxDrawdownDollar |-> w.maxDrawdownDollar]

equityCurveData == EquityCurve(tradeHistory, accountSize)

\* ---- Performance metrics (performanceMetrics useMemo, App.jsx 323-346) ----
IsClosed(t) == t.result # "Pending"
IsWin(t) == t.result = "Win"
IsLossOnly(t) == t.result = "Loss"
IsLossOrScratch(t) == t.result = "Loss" \/ t.result = "Scratch"

ClosedTrades(history) == SelectSeq(history, IsClosed)
Wins(closedTrades) == Len(SelectSeq(closedTrades, IsWin))

\* a count that forgets the scratches
LossesOnly(closedTrades) == Len(SelectSeq(closedTrades, IsLossOnly))

Losses(closedTrades) == Len(SelectSeq(closedTrades, IsLossOrScratch))

\* a win rate as a fraction of 1 instead of a percentage
WinRateUnscaled(wins, closedCount) ==
  IF closedCount > 0 THEN Frac(wins, closedCount) ELSE Zero

\* closedCount > 0 ? (wins / closedCount) * 100 : 0
WinRate(wins, closedCount) ==
  IF closedCount > 0 THEN FracTimes(Frac(wins, closedCount), 100) ELSE Zero

\* accountSize > 0 ? (maxDrawdownDollar / accountSize) * 100 : 0
DrawdownPercent(maxDrawdownDollar, acct) ==
  IF acct > 0 THEN FracTimes(Frac(maxDrawdownDollar, acct), 100) ELSE Zero

\* closedCount > 0 ? totalProfitLoss / closedCount : 0
ExpectedValue(totalProfitLoss, closedCount) ==
  IF closedCount > 0 THEN Frac(totalProfitLoss, closedCount) ELSE Zero

\* a final equity read from the first curve point instead of the last
FinalEquityFirstPoint(curve, acct) ==
  IF Len(curve) > 0 THEN curve[1].equity ELSE acct

\* a final equity without the fallback to the account size
FinalEquityNoFallback(curve, acct) ==
  IF Len(curve) > 0 THEN curve[Len(curve)].equity ELSE 0

\* equityCurveData.length > 0 ? equityCurveData[length - 1].equity : accountSize
FinalEquity(curve, acct) ==
  IF Len(curve) > 0 THEN curve[Len(curve)].equity ELSE acct

PerformanceMetrics(history, curveData, acct) ==
  LET totalTrades == Len(history)
      closedTrades == ClosedTrades(history)
      closedCount == Len(closedTrades)
      wins == Wins(closedTrades)
      losses == Losses(closedTrades)
      finalEquity == FinalEquity(curveData.curve, acct)
      totalProfitLoss == finalEquity - acct
      maxDrawdownDollar == curveData.maxDrawdownDollar
  IN [ totalTrades |-> totalTrades,
       wins |-> wins,
       losses |-> losses,
       pending |-> totalTrades - closedCount,
       winRate |-> WinRate(wins, closedCount),
       totalProfitLoss |-> totalProfitLoss,
       finalEquity |-> finalEquity,
       maxDrawdownDollar |-> maxDrawdownDollar,
       maxDrawdownPercent |-> DrawdownPercent(maxDrawdownDollar, acct),
       expectedValue |-> ExpectedValue(totalProfitLoss, closedCount) ]

performanceMetrics == PerformanceMetrics(tradeHistory, equityCurveData, accountSize)

\* ---- R-multiple distribution (rMultipleDistribution useMemo, App.jsx 350-405) ----
\* t.result !== 'Pending' && t.totalRiskAmount > 0
InHistogram(t) == t.result # "Pending" /\ t.totalRiskAmount > 0

HistogramTrades(history) == SelectSeq(history, InHistogram)

\* a realized P&L that forgets the cost of a losing trade
HistogramRealizedGrossLoss(trade) ==
  LET grossRisk == trade.totalRiskAmount
      grossGain == TimesR(grossRisk, trade.targetRMultiple)
      totalCostValue == trade.totalCost
  IN IF trade.result = "Win" THEN grossGain - totalCostValue
     ELSE IF trade.result = "Loss" THEN 0 - grossRisk
     ELSE 0 - totalCostValue

\* the realized P&L of one closed trade, as the histogram computes it
\* (App.jsx 363-374)
HistogramRealized(trade) ==
  LET grossRisk == trade.totalRiskAmount
      grossGain == TimesR(grossRisk, trade.targetRMultiple)
      totalCostValue == trade.totalCost
  IN IF trade.result = "Win" THEN grossGain - totalCostValue
     ELSE IF trade.result = "Loss" THEN 0 - (grossRisk + totalCostValue)
     ELSE 0 - totalCostValue

\* grossRisk > 0 ? realizedPNL / grossRisk : 0
RealizedR(trade) ==
  IF trade.totalRiskAmount > 0
    THEN Frac(HistogramRealized(trade), trade.totalRiskAmount)
    ELSE Zero

KeyWorst == "Worst Case (R < -1)"
KeyLoss == "-1R (Standard Loss)"
KeyScratch == "0R (Scratch/Cost)"
KeyPartial == "1R (Small/Partial Win)"
KeyTarget == "2R (Target Hit)"
KeyBest == "Best Case (R > 2)"

\* the keys of the distribution object, in insertion order (App.jsx 352-359)
BinKeys == <<KeyWorst, KeyLoss, KeyScratch, KeyPartial, KeyTarget, KeyBest>>

\* bin tests that send a result of exactly -0.5 R to the standard losses
BinKeyHalfLossIncluded(realizedR) ==
  IF LessThanHalves(realizedR, 0 - 2) THEN KeyWorst
  ELSE IF AtMostHalves(realizedR, 0 - 1) THEN KeyLoss
  ELSE IF AtMostHalves(realizedR, 1) THEN KeyScratch
  ELSE IF AtMostHalves(realizedR, 3) THEN KeyPartial
  ELSE IF AtMostHalves(realizedR, 5) THEN KeyTarget
  ELSE KeyBest

\* bin tests with the upper bounds left open
BinKeyOpenAbove(realizedR) ==
  IF LessThanHalves(realizedR, 0 - 2) THEN KeyWorst
  ELSE IF LessThanHalves(realizedR, 0 - 1) THEN KeyLoss
  ELSE IF LessThanHalves(realizedR, 1) THEN KeyScratch
  ELSE IF LessThanHalves(realizedR, 3) THEN KeyPartial
  ELSE IF LessThanHalves(realizedR, 5) THEN KeyTarget
  ELSE KeyBest

\* the chain of bin tests (App.jsx 379-392)
BinKey(realizedR) ==
  IF LessThanHalves(realizedR, 0 - 2) THEN KeyWorst
  ELSE IF LessThanHalves(realizedR, 0 - 1) THEN KeyLoss
  ELSE IF AtMostHalves(realizedR, 1) THEN KeyScratch
  ELSE IF AtMostHalves(realizedR, 3) THEN KeyPartial
  ELSE IF AtMostHalves(realizedR, 5) THEN KeyTarget
  ELSE KeyBest

EmptyDistribution == [key \in {BinKeys[i] : i \in 1..Len(BinKeys)} |-> 0]

\* closedTrades.forEach(... distribution[binKey]++ ...) over the first n trades
RECURSIVE Tally(_, _)
Tally(closedTrades, n) ==
  IF n = 0 THEN EmptyDistribution
  ELSE LET d == Tally(closedTrades, n - 1)
           binKey == BinKey(RealizedR(closedTrades[n]))
       IN [d EXCEPT ![binKey] = @ + 1]

\* key.includes('Loss') || key.includes('Worst Case') ? red
\*   : key.includes('Scratch') ? amber : green
BinColor(key) ==
  IF key \in {KeyLoss, KeyWorst} THEN "#EF4444"
  ELSE IF key = KeyScratch THEN "#FBBF24"
  ELSE "#10B981"

\* a chart that leaves out the bins nothing fell into
ChartDataNonEmptyBins(distribution) ==
  LET all == [i \in 1..Len(BinKeys) |->
                [rMultiple |-> BinKeys[i], count |-> distribution[BinKeys[i]],
                 color |-> BinColor(BinKeys[i])]]
      HasCount(e) == e.count > 0
  IN SelectSeq(all, HasCount)

\* Object.keys(distribution).map(...)
ChartData(distribution) ==
  [i \in 1..Len(BinKeys) |->
     [rMultiple |-> BinKeys[i], count |-> distribution[BinKeys[i]],
      color |-> BinColor(BinKeys[i])]]

RMultipleDistribution(history) ==
  LET closedTrades == HistogramTrades(history)
  IN ChartData(Tally(closedTrades, Len(closedTrades)))

rMultipleDistribution == RMultipleDistribution(tradeHistory)

\* x || fallback
OrElse(x, fallback) == IF x = 0 THEN fallback ELSE x

\* ---- 2. Settings listener (App.jsx 123-148) ----
\* docSnap.exists(): the four inputs are set from the document
SettingsSnapshotExists ==
  /\ settingsSub = "pending" /\ settingsDoc # NoDoc
  /\ accountSize' = OrElse(settingsDoc.accountSize, FALLBACK_ACCOUNT_SIZE)
  /\ riskPercent' = OrElse(settingsDoc.riskPercent, FALLBACK_RISK_PERCENT)
  /\ targetRMultiple' = OrElse(settingsDoc.targetRMultiple, FALLBACK_R_MULTIPLE)
  /\ totalTradeCost' = OrElse(settingsDoc.totalTradeCost, FALLBACK_TRADE_COST)
  /\ loadingSettings' = FALSE
  /\ settingsSub' = "idle"
  /\ UNCHANGED <<firebaseVars, settingsMessage, settingsDoc, pendingSetDoc,
                 settingsTimers, entryPrice, atrStopDistance, calcResultMessage,
                 journalVars, newsVars, rowVars>>

\* no settings document yet
SettingsSnapshotMissing ==
  /\ settingsSub = "pending" /\ settingsDoc = NoDoc
  /\ loadingSettings' = FALSE
  /\ settingsSub' = "idle"
  /\ UNCHANGED <<firebaseVars, settingsMessage, settingsDoc, pendingSetDoc,
                 settingsTimers, formVars, calcResultMessage, journalVars, newsVars, rowVars>>

\* the listener's error callback; a failed listener delivers nothing more
SettingsSnapshotError ==
  /\ settingsSub \in {"pending", "idle"}
  /\ settingsMessage' = MsgSettingsLoadFailed
  /\ loadingSettings' = FALSE
  /\ settingsSub' = "dead"
  /\ UNCHANGED <<firebaseVars, settingsDoc, pendingSetDoc, settingsTimers,
                 formVars, calcResultMessage, journalVars, newsVars, rowVars>>

\* ---- 3. saveDefaultSettings (App.jsx 152-178) ----
SaveDefaultSettingsNotReady ==
  /\ NotReady
  /\ settingsMessage' = MsgSettingsNotReady
  /\ UNCHANGED <<firebaseVars, loadingSettings, settingsDoc, pendingSetDoc,
                 settingsSub, settingsTimers, formVars, calcResultMessage,
                 journalVars, newsVars, rowVars>>

\* up to the await: the settings data is built from the current inputs
\* (updatedAt, which nothing reads, is left out of the document)
SaveDefaultSettingsStart ==
  /\ ~NotReady
  /\ Len(pendingSetDoc) < MaxInFlight
  /\ settingsTimers + Len(pendingSetDoc) < MaxTimers
  /\ settingsMessage' = MsgSavingDefaults
  /\ pendingSetDoc' = Append(pendingSetDoc,
       [accountSize |-> accountSize, riskPercent |-> riskPercent,
        targetRMultiple |-> targetRMultiple, totalTradeCost |-> totalTradeCost])
  /\ UNCHANGED <<firebaseVars, loadingSettings, settingsDoc, settingsSub,
                 settingsTimers, formVars, calcResultMessage, journalVars, newsVars, rowVars>>

\* setDoc(docRef, settingsData, {merge: true}) resolves; finally schedules the
\* timer; the settings listener, if alive, owes a snapshot
SetDocResolves ==
  /\ pendingSetDoc # <<>>
  /\ settingsDoc' = Head(pendingSetDoc)
  /\ pendingSetDoc' = Tail(pendingSetDoc)
  /\ settingsMessage' = MsgDefaultsSaved
  /\ settingsTimers' = settingsTimers + 1
  /\ settingsSub' = IF settingsSub \in {"pending", "idle"} THEN "pending" ELSE settingsSub
  /\ UNCHANGED <<firebaseVars, loadingSettings, formVars, calcResultMessage,
                 journalVars, newsVars, rowVars>>

SetDocRejects ==
  /\ pendingSetDoc # <<>>
  /\ pendingSetDoc' = Tail(pendingSetDoc)
  /\ settingsMessage' = MsgDefaultsFailed
  /\ settingsTimers' = settingsTimers + 1
  /\ UNCHANGED <<firebaseVars, loadingSettings, settingsDoc, settingsSub, formVars,
                 calcResultMessage, journalVars, newsVars, rowVars>>

SettingsTimerFires ==
  /\ settingsTimers > 0
  /\ settingsTimers' = settingsTimers - 1
  /\ settingsMessage' = ""
  /\ UNCHANGED <<firebaseVars, loadingSettings, settingsDoc, pendingSetDoc,
                 settingsSub, formVars, calcResultMessage, journalVars, newsVars, rowVars>>

\* ---- 4. Journal listener (App.jsx 182-202) ----
\* history = docs sorted by timestamp; setTradeHistory(history.reverse())
OnJournalSnapshot(docs) == Reverse(SortByTimestamp(docs))

JournalSnapshot ==
  /\ journalSub = "pending"
  /\ \E docs \in Orderings(journalDocs) : tradeHistory' = OnJournalSnapshot(docs)
  /\ journalSub' = "idle"
  /\ UNCHANGED <<firebaseVars, settingsVars, formVars, calcResultMessage, saving,
                 saveMessage, journalDocs, clock, pendingAdd, saveTimers, newsVars, rowVars>>

JournalSnapshotError ==
  /\ journalSub \in {"pending", "idle"}
  /\ dbError' = MsgHistoryFailed
  /\ journalSub' = "dead"
  /\ UNCHANGED <<configPresent, mounted, db, userId, isAuthReady, settingsVars,
                 formVars, calcResultMessage, tradeHistory, saving, saveMessage,
                 journalDocs, clock, pendingAdd, saveTimers, newsVars, rowVars>>

\* ---- saveTrade (App.jsx 24-37, 499-537) ----
\* sentiment?.text || 'N/A'
SentimentText(sentiment) == IF sentiment.text = "" THEN "N/A" ELSE sentiment.text

\* an entry that takes the net gain for the net risk and the net risk for the gain
createTradeEntrySwapped(shares, riskAmount, cost, nRisk, nGain, entry, atr, tick, sentiment, r) ==
  [ maxShares |-> shares,
    totalRiskAmount |-> riskAmount,
    totalCost |-> cost,
    netRisk |-> nGain,
    netGain |-> nRisk,
    entryPrice |-> entry,
    atrStopDistance |-> atr,
    targetRMultiple |-> r,
    ticker |-> tick,
    sentimentText |-> SentimentText(sentiment),
    result |-> "Pending" ]

createTradeEntry(shares, riskAmount, cost, nRisk, nGain, entry, atr, tick, sentiment, r) ==
  [ maxShares |-> shares,
    totalRiskAmount |-> riskAmount,
    totalCost |-> cost,
    netRisk |-> nRisk,
    netGain |-> nGain,
    entryPrice |-> entry,
    atrStopDistance |-> atr,
    targetRMultiple |-> r,
    ticker |-> tick,
    sentimentText |-> SentimentText(sentiment),
    result |-> "Pending" ]

\* a guard that lets a zero share count through
SaveTradeRejectsNegative == maxShares < 0

\* if (maxShares === 0): the confirm action is refused (App.jsx 504-507)
SaveTradeRejectsZero == maxShares = 0

SaveTradeNotReady ==
  /\ NotReady
  /\ saveMessage' = MsgSaveNotReady
  /\ UNCHANGED <<firebaseVars, settingsVars, formVars, calcResultMessage,
                 tradeHistory, saving, journalDocs, clock, pendingAdd, journalSub,
                 saveTimers, newsVars, rowVars>>

SaveTradeZeroShares ==
  /\ ~NotReady
  /\ SaveTradeRejectsZero
  /\ saveMessage' = MsgZeroShares
  /\ UNCHANGED <<firebaseVars, settingsVars, formVars, calcResultMessage,
                 tradeHistory, saving, journalDocs, clock, pendingAdd, journalSub,
                 saveTimers, newsVars, rowVars>>

\* up to the await: setSaving(true), setSaveMessage(''), the entry is built from
\* the values of the current render and handed to addDoc
SaveTradeStart ==
  /\ ~NotReady
  /\ ~SaveTradeRejectsZero
  /\ clock + Len(pendingAdd) < MaxJournal
  /\ Len(pendingAdd) < MaxInFlight
  /\ saveTimers + Len(pendingAdd) < MaxTimers
  /\ saving' = TRUE
  /\ saveMessage' = ""
  /\ pendingAdd' = Append(pendingAdd,
       createTradeEntry(maxShares, calc.totalRiskAmount, calc.totalCost,
                        calc.netRisk, calc.netGain, entryPrice, atrStopDistance,
                        ticker, newsAnalysis, targetRMultiple))
  /\ UNCHANGED <<firebaseVars, settingsVars, formVars, calcResultMessage,
                 tradeHistory, journalDocs, clock, journalSub, saveTimers, newsVars, rowVars>>

\* the record the store keeps for an added entry: its id and the timestamp
StoredDoc(entry, id, now) ==
  [ id |-> id, timestamp |-> now ] @@ entry

\* addDoc resolves: the store holds the record; then the success message and
\* the finally block; the journal listener, if alive, owes a snapshot
AddDocResolves ==
  /\ pendingAdd # <<>>
  /\ clock' = clock + 1
  /\ journalDocs' = Append(journalDocs, StoredDoc(Head(pendingAdd), clock + 1, clock + 1))
  /\ pendingAdd' = Tail(pendingAdd)
  /\ saveMessage' = MsgSaved
  /\ saving' = FALSE
  /\ saveTimers' = saveTimers + 1
  /\ journalSub' = IF journalSub \in {"pending", "idle"} THEN "pending" ELSE journalSub
  /\ UNCHANGED <<firebaseVars, settingsVars, formVars, calcResultMessage,
                 tradeHistory, newsVars, rowVars>>

\* addDoc rejects: the catch block and the finally block
AddDocRejects ==
  /\ pendingAdd # <<>>
  /\ pendingAdd' = Tail(pendingAdd)
  /\ saveMessage' = MsgSaveFailed
  /\ saving' = FALSE
  /\ saveTimers' = saveTimers + 1
  /\ UNCHANGED <<firebaseVars, settingsVars, formVars, calcResultMessage,
                 tradeHistory, journalDocs, clock, journalSub, newsVars, rowVars>>

SaveTimerFires ==
  /\ saveTimers > 0
  /\ saveTimers' = saveTimers - 1
  /\ saveMessage' = ""
  /\ UNCHANGED <<firebaseVars, settingsVars, formVars, calcResultMessage,
                 tradeHistory, saving, journalDocs, clock, pendingAdd, journalSub,
                 newsVars, rowVars>>

\* ---- updateTradeResult and deleteTrade (App.jsx 539-577) ----
\* setUpdateStatus(prev => ({ ...prev, [tradeId]: status }))
WithStatus(status, tradeId, value) ==
  [k \in (DOMAIN status) \cup {tradeId} |-> IF k = tradeId THEN value ELSE status[k]]

\* the position of the document with this id in the collection, 0 if none
DocIndex(docs, tradeId) ==
  IF \E i \in 1..Len(docs) : docs[i].id = tradeId
    THEN CHOOSE i \in 1..Len(docs) : docs[i].id = tradeId
    ELSE 0

\* an update that also stamps the record with the time of the write
UpdateDocStampsTime(document, result, now) ==
  [document EXCEPT !.result = result, !.timestamp = now]

\* updateDoc(ref, { result }): the result field alone is written
UpdateDocFields(document, result, now) == [document EXCEPT !.result = result]

\* the results the row buttons pass (App.jsx 1003-1019)
RowResults == {"Win", "Loss", "Scratch"}

\* the ids of the rows on display
RowIds == {tradeHistory[i].id : i \in 1..Len(tradeHistory)}

\* the delays of the status-clearing timers, in milliseconds
UpdateStatusDelay == 2000
DeleteStatusDelay == 1000

\* a timer that always waits as long as the one of an update
RowTimerUpdateDelay(tradeId, delay) == [id |-> tradeId, delay |-> UpdateStatusDelay]

\* setTimeout(() => setUpdateStatus(prev => ({ ...prev, [tradeId]: null })), delay)
RowTimer(tradeId, delay) == [id |-> tradeId, delay |-> delay]

\* the store calls and timers of the row buttons not yet finished
RowWork == Len(pendingUpdate) + Len(pendingDelete) + Len(rowTimers)

\* if (!db || !userId || !isAuthReady) { console.error(...); return; }
UpdateTradeResultNotReady ==
  /\ NotReady
  /\ UNCHANGED vars

\* up to the await of updateDoc
UpdateTradeResultStart(tradeId, result) ==
  /\ ~NotReady
  /\ Len(pendingUpdate) < MaxInFlight
  /\ RowWork <= MaxTimers
  /\ updateStatus' = WithStatus(updateStatus, tradeId, "loading")
  /\ pendingUpdate' = Append(pendingUpdate, [id |-> tradeId, result |-> result])
  /\ UNCHANGED <<firebaseVars, settingsVars, formVars, calcResultMessage,
                 journalVars, newsVars, pendingDelete, rowTimers>>

\* updateDoc resolves (the document exists): the store's record has the new
\* result; status 'success'; finally schedules the timer; the journal listener,
\* if alive, owes a snapshot
UpdateDocResolves ==
  /\ pendingUpdate # <<>>
  /\ LET call == Head(pendingUpdate)
         i == DocIndex(journalDocs, call.id)
     IN /\ i # 0
        /\ journalDocs' = [journalDocs EXCEPT
                             ![i] = UpdateDocFields(@, call.result, clock + 1)]
        /\ updateStatus' = WithStatus(updateStatus, call.id, "success")
        /\ rowTimers' = Append(rowTimers, RowTimer(call.id, UpdateStatusDelay))
  /\ pendingUpdate' = Tail(pendingUpdate)
  /\ journalSub' = IF journalSub \in {"pending", "idle"} THEN "pending" ELSE journalSub
  /\ UNCHANGED <<firebaseVars, settingsVars, formVars, calcResultMessage,
                 tradeHistory, saving, saveMessage, clock, pendingAdd, saveTimers,
                 newsVars, pendingDelete>>

\* updateDoc rejects (no such document any more, or the store fails): the catch
\* block and the finally block
UpdateDocRejects ==
  /\ pendingUpdate # <<>>
  /\ updateStatus' = WithStatus(updateStatus, Head(pendingUpdate).id, "error")
  /\ rowTimers' = Append(rowTimers, RowTimer(Head(pendingUpdate).id, UpdateStatusDelay))
  /\ pendingUpdate' = Tail(pendingUpdate)
  /\ UNCHANGED <<firebaseVars, settingsVars, formVars, calcResultMessage,
                 journalVars, newsVars, pendingDelete>>

DeleteTradeNotReady ==
  /\ NotReady
  /\ UNCHANGED vars

\* up to the await of deleteDoc
DeleteTradeStart(tradeId) ==
  /\ ~NotReady
  /\ Len(pendingDelete) < MaxInFlight
  /\ RowWork <= MaxTimers
  /\ updateStatus' = WithStatus(updateStatus, tradeId, "deleting")
  /\ pendingDelete' = Append(pendingDelete, tradeId)
  /\ UNCHANGED <<firebaseVars, settingsVars, formVars, calcResultMessage,
                 journalVars, newsVars, pendingUpdate, rowTimers>>

\* deleteDoc resolves: the store no longer holds the record; finally schedules
\* the timer; the journal listener, if alive, owes a snapshot
DeleteDocResolves ==
  /\ pendingDelete # <<>>
  /\ LET i == DocIndex(journalDocs, Head(pendingDelete))
     IN journalDocs' = IF i = 0 THEN journalDocs ELSE RemoveAt(journalDocs, i)
  /\ rowTimers' = Append(rowTimers, RowTimer(Head(pendingDelete), DeleteStatusDelay))
  /\ pendingDelete' = Tail(pendingDelete)
  /\ journalSub' = IF journalSub \in {"pending", "idle"} THEN "pending" ELSE journalSub
  /\ UNCHANGED <<firebaseVars, settingsVars, formVars, calcResultMessage,
                 tradeHistory, saving, saveMessage, clock, pendingAdd, saveTimers,
                 newsVars, updateStatus, pendingUpdate>>

\* deleteDoc rejects: the catch block and the finally block
DeleteDocRejects ==
  /\ pendingDelete # <<>>
  /\ updateStatus' = WithStatus(updateStatus, Head(pendingDelete), "error")
  /\ rowTimers' = Append(rowTimers, RowTimer(Head(pendingDelete), DeleteStatusDelay))
  /\ pendingDelete' = Tail(pendingDelete)
  /\ UNCHANGED <<firebaseVars, settingsVars, formVars, calcResultMessage,
                 journalVars, newsVars, pendingUpdate>>

\* setTimeout(() => setUpdateStatus(prev => ({ ...prev, [tradeId]: null })), ...)
RowTimerFires(k) ==
  /\ k \in 1..Len(rowTimers)
  /\ updateStatus' = WithStatus(updateStatus, rowTimers[k].id, "null")
  /\ rowTimers' = RemoveAt(rowTimers, k)
  /\ UNCHANGED <<firebaseVars, settingsVars, formVars, calcResultMessage,
                 journalVars, newsVars, pendingUpdate, pendingDelete>>

\* ---- The default settings: edit, save and load ----
\* the texts typed into the inputs ('' when a field is cleared)
SettingsTexts(setter) ==
  CASE setter = "setAccountSize" -> {NumText(Dollars(10000))}
    [] setter = "setRiskPercent" -> {NumText(Percent(1)), NumText(Percent(2))}
    [] setter = "setEntryPrice" -> {NumText(Dollars(1)), NumText(Dollars(150))}
    [] setter = "setAtrStopDistance" -> {NumText(Cents(450))}
    [] setter = "setTargetRMultiple" -> {NumText(1), NumText(RMult(2))}
    [] setter = "setTotalTradeCost" ->
         {EmptyText, NumText(0), NumText(Dollars(5)), NumText(Dollars(7))}

InitSettings == Init /\ configPresent /\ settingsDoc = NoDoc

NextSettings ==
  \/ MountConfigured
  \/ AuthStateChanged
  \/ \E setter \in Setters : \E value \in SettingsTexts(setter) :
       HandleInputChange(setter, value, MinProp(setter))
  \/ SettingsSnapshotExists
  \/ SettingsSnapshotMissing
  \/ SettingsSnapshotError
  \/ SaveDefaultSettingsNotReady
  \/ SaveDefaultSettingsStart
  \/ SetDocResolves
  \/ SetDocRejects
  \/ SettingsTimerFires

SpecSettings == InitSettings /\ [][NextSettings]_vars

\* ---- The journal: confirm, mark and delete, one row operation at a time ----
\* (a row button is pressed when the row operation before it has finished and
\* its status has been cleared)
InitJournal == Init /\ settingsDoc = NoDoc

NextJournal ==
  \/ MountConfigMissing
  \/ MountConfigured
  \/ MountSetupThrows
  \/ AuthStateChanged
  \/ JournalSnapshot
  \/ SaveTradeNotReady
  \/ SaveTradeStart
  \/ AddDocResolves
  \/ AddDocRejects
  \/ SaveTimerFires
  \/ SaveDefaultSettingsNotReady
  \/ UpdateTradeResultNotReady
  \/ \E tradeId \in RowIds : \E result \in RowResults :
       RowWork = 0 /\ UpdateTradeResultStart(tradeId, result)
  \/ UpdateDocResolves
  \/ UpdateDocRejects
  \/ DeleteTradeNotReady
  \/ \E tradeId \in RowIds : RowWork = 0 /\ DeleteTradeStart(tradeId)
  \/ DeleteDocResolves
  \/ DeleteDocRejects
  \/ \E k \in 1..Len(rowTimers) : RowTimerFires(k)

SpecJournal == InitJournal /\ [][NextJournal]_vars

\* ---- Market sentiment advisor: fetchNewsAnalysis (App.jsx 430-496) ----
\* const maxRetries = 3
maxRetries == 3

RECURSIVE Pow2(_)
Pow2(n) == IF n = 0 THEN 1 ELSE 2 * Pow2(n - 1)

\* a wait that does not grow
RetryDelayConstant(retryCount) == 1000

\* Math.pow(2, retryCount) * 1000, in milliseconds
RetryDelay(retryCount) == Pow2(retryCount) * 1000

\* a test that allows one retry more
MayRetryInclusive(retryCount) == retryCount <= maxRetries

\* if (retryCount < maxRetries)
MayRetry(retryCount) == retryCount < maxRetries

\* e.target.value.toUpperCase() of the texts typed into the ticker input
ToUpperCase(text) == IF text = "spy" THEN "SPY" ELSE text

\* ticker.trim()
Trim(text) == IF text = " " THEN "" ELSE text

TickerTexts == {"", " ", "spy"}

\* how a fetch may end: a response with generated text, a response that is not
\* ok, an ok response without candidate text, a rejected fetch
FetchFailures == {"httpError", "noText", "rejected"}
AnalysisTexts == {"Long", "Short"}

\* `Failed to get analysis for ${ticker} after ${maxRetries} attempts.`
MsgNewsFailed(tick) == <<"Failed to get analysis", tick, maxRetries>>

\* an analysis left on display
KeptAnalysis(current) == current

\* setNewsAnalysis(null)
ClearedAnalysis(current) == NoAnalysis

\* the ticker input's onChange
SetTicker(text) ==
  /\ ticker' = ToUpperCase(text)
  /\ UNCHANGED <<firebaseVars, settingsVars, formVars, calcResultMessage,
                 journalVars, newsAnalysis, loadingNews, newsError, newsCalls,
                 rowVars>>

\* if (!ticker.trim()) return
FetchNewsBlankTicker ==
  /\ Trim(ticker) = ""
  /\ UNCHANGED vars

\* The button's onClick, fetchNewsAnalysis() with retryCount = 0, up to the
\* await of fetch; the button is disabled while loadingNews.  The request keeps
\* the ticker of its closure; attempts counts the fetches issued, waits the
\* delays slept, shown is what the panel held when the request was made.
FetchNewsStart ==
  /\ ~loadingNews
  /\ Trim(ticker) # ""
  /\ Len(newsCalls) < MaxRequests
  /\ loadingNews' = TRUE
  /\ newsAnalysis' = ClearedAnalysis(newsAnalysis)
  /\ newsError' = NoMessage
  /\ newsCalls' = Append(newsCalls,
       [ticker |-> ticker, retryCount |-> 0, phase |-> "fetching",
        attempts |-> 1, waits |-> <<>>, shown |-> newsAnalysis])
  /\ UNCHANGED <<firebaseVars, settingsVars, formVars, calcResultMessage,
                 journalVars, ticker, rowVars>>

\* the response is ok and carries text: setNewsAnalysis({text, sources}) and the
\* finally block (the sources, which nothing reads back, are left out)
FetchResolves(i, text) ==
  /\ newsCalls[i].phase = "fetching"
  /\ newsAnalysis' = [text |-> text]
  /\ loadingNews' = FALSE
  /\ newsCalls' = [newsCalls EXCEPT ![i].phase = "done"]
  /\ UNCHANGED <<firebaseVars, settingsVars, formVars, calcResultMessage,
                 journalVars, ticker, newsError, rowVars>>

\* the catch block: fetch rejected, !response.ok, or no candidate text.  With
\* retries left the call sleeps; otherwise the error is set and the finally
\* block runs.
FetchFails(i, failure) ==
  /\ newsCalls[i].phase = "fetching"
  /\ IF MayRetry(newsCalls[i].retryCount)
       THEN /\ newsCalls' = [newsCalls EXCEPT
                 ![i].phase = "waiting",
                 ![i].waits = Append(@, RetryDelay(newsCalls[i].retryCount))]
            /\ UNCHANGED <<newsAnalysis, newsError, loadingNews>>
       ELSE /\ newsError' = MsgNewsFailed(newsCalls[i].ticker)
            /\ newsAnalysis' = ClearedAnalysis(newsAnalysis)
            /\ loadingNews' = FALSE
            /\ newsCalls' = [newsCalls EXCEPT ![i].phase = "failed"]
  /\ UNCHANGED <<firebaseVars, settingsVars, formVars, calcResultMessage,
                 journalVars, ticker, rowVars>>

\* the sleep ends: return fetchNewsAnalysis(retryCount + 1) runs up to its
\* await (setLoadingNews(true), setNewsAnalysis(null), setNewsError('')), and
\* then the caller's finally block runs setLoadingNews(false)
RetryTimerFires(i) ==
  /\ newsCalls[i].phase = "waiting"
  /\ loadingNews' = FALSE
  /\ newsAnalysis' = ClearedAnalysis(newsAnalysis)
  /\ newsError' = NoMessage
  /\ newsCalls' = [newsCalls EXCEPT
       ![i].phase = "fetching",
       ![i].retryCount = @ + 1,
       ![i].attempts = @ + 1]
  /\ UNCHANGED <<firebaseVars, settingsVars, formVars, calcResultMessage,
                 journalVars, ticker, rowVars>>

\* one step of request i: its fetch ends or its sleep ends
RequestStep(i) ==
  /\ i \in 1..Len(newsCalls)
  /\ \/ \E text \in AnalysisTexts : FetchResolves(i, text)
     \/ \E failure \in FetchFailures : FetchFails(i, failure)
     \/ RetryTimerFires(i)

InitNews == Init /\ ~configPresent /\ settingsDoc = NoDoc

NextNews ==
  \/ \E text \in TickerTexts : SetTicker(text)
  \/ FetchNewsBlankTicker
  \/ FetchNewsStart
  \/ \E i \in 1..Len(newsCalls) : \E text \in AnalysisTexts : FetchResolves(i, text)
  \/ \E i \in 1..Len(newsCalls) : \E failure \in FetchFailures : FetchFails(i, failure)
  \/ \E i \in 1..Len(newsCalls) : RetryTimerFires(i)

\* every fetch is answered or rejected and every sleep ends
SpecNews ==
  /\ InitNews
  /\ [][NextNews]_vars
  /\ \A i \in 1..MaxRequests : WF_vars(RequestStep(i))

\* ---- The application: form edits, settings loads and confirm actions ----
\* Texts typed into the inputs in the application runs: '' (cleared), a
\* rejected text, the amounts of the fallback defaults and a stop distance
\* larger than the risk budget.
FormTexts(setter) ==
  CASE setter = "setAccountSize" -> {EmptyText, NumText(Dollars(10000))}
    [] setter = "setRiskPercent" -> {NumText(0 - 1)}
    [] setter = "setEntryPrice" -> {EmptyText, NumText(Dollars(150))}
    [] setter = "setAtrStopDistance" ->
         {EmptyText, NumText(Cents(450)), NumText(Dollars(150))}
    [] setter = "setTargetRMultiple" -> {EmptyText, NumText(0), NumText(RMult(2))}
    [] setter = "setTotalTradeCost" -> {NumText(0 - 1)}

Next ==
  \/ MountConfigMissing
  \/ MountConfigured
  \/ MountSetupThrows
  \/ AuthStateChanged
  \/ \E setter \in Setters : \E value \in FormTexts(setter) :
       HandleInputChange(setter, value, MinProp(setter))
  \/ SettingsSnapshotExists
  \/ SettingsSnapshotMissing
  \/ JournalSnapshot
  \/ SaveTradeNotReady
  \/ SaveTradeZeroShares
  \/ SaveTradeStart
  \/ AddDocResolves
  \/ AddDocRejects
  \/ SaveTimerFires

Spec == Init /\ [][Next]_vars

\* a run of the saveTrade handler up to its first await or return
SaveTrade == SaveTradeNotReady \/ SaveTradeZeroShares \/ SaveTradeStart

\* the records the store holds or has been asked to create
StoredOrRequested ==
  {journalDocs[i] : i \in 1..Len(journalDocs)}
    \cup {tradeHistory[i] : i \in 1..Len(tradeHistory)}

\* C1: no record with maxShares = 0 is ever stored or handed to the store, and
\* a saveTrade run with the store ready and a share count of 0 issues no create
\* call and sets the message 'Error: Cannot save trade with 0 maximum shares.'
ZeroShareTradeNeverSaved ==
  [][ /\ \A rec \in StoredOrRequested' : rec.maxShares > 0
      /\ \A i \in 1..Len(pendingAdd') : pendingAdd'[i].maxShares > 0
      /\ (SaveTrade /\ ~NotReady /\ maxShares = 0) =>
           /\ pendingAdd' = pendingAdd
           /\ journalDocs' = journalDocs
           /\ saveMessage' = MsgZeroShares ]_vars

\* a stop distance too large for the risk budget was refused after an earlier
\* trade had been stored
ZeroShareConfirmRefused ==
  /\ ~NotReady /\ maxShares = 0 /\ atrStopDistance = Dollars(150)
  /\ accountSize = Dollars(10000)
  /\ saveMessage = MsgZeroShares
  /\ Len(journalDocs) = 1 /\ pendingAdd = <<>>

\* ---- The sizing calculator driven by the form alone ----
\* Texts typed into the six inputs: '' (cleared), rejected texts (negative, or
\* below the field's min) and amounts that make the share count 0, exact and
\* rounded down.
SizingTexts(setter) ==
  CASE setter = "setAccountSize" ->
         {EmptyText, NumText(0 - Dollars(1)), NumText(Dollars(30)),
          NumText(Dollars(100)), NumText(Dollars(10000))}
    [] setter = "setRiskPercent" ->
         {EmptyText, NumText(5), NumText(Percent(1)), NumText(Percent(2))}
    [] setter = "setEntryPrice" ->
         {EmptyText, NumText(Dollars(1)), NumText(Dollars(150))}
    [] setter = "setAtrStopDistance" ->
         {EmptyText, NumText(2), NumText(Cents(450)), NumText(Dollars(7)),
          NumText(Dollars(150)), NumText(Dollars(200))}
    [] setter = "setTargetRMultiple" ->
         {EmptyText, NumText(0), NumText(1), NumText(3), NumText(RMult(2)),
          NumText(RMult(3))}
    [] setter = "setTotalTradeCost" ->
         {EmptyText, NumText(Dollars(5)), NumText(Dollars(5) + 2)}

InitSizing == Init /\ ~configPresent /\ settingsDoc = NoDoc

NextSizing ==
  \/ \E setter \in Setters : \E value \in SizingTexts(setter) :
       HandleInputChange(setter, value, MinProp(setter))
  \/ HandleCalculate

SpecSizing == InitSizing /\ [][NextSizing]_vars

\* C2: the share count is floor(riskAmount / atrStopDistance) when the stop
\* distance and the risk amount are positive and 0 otherwise, where
\* riskAmount = accountSize * riskPercent / 100; so with shares > 0 the realized
\* risk shares * atrStopDistance is at most riskAmount and more than
\* riskAmount - atrStopDistance.  (riskAmount * 1000 = accountSize * riskPercent
\* in the model's units.)
SharesAreFloorOfRisk ==
  LET risk1000 == accountSize * riskPercent
      atr1000 == atrStopDistance * 1000
  IN /\ (atrStopDistance > 0 /\ risk1000 > 0) =>
          /\ maxShares * atr1000 <= risk1000
          /\ risk1000 < (maxShares + 1) * atr1000
     /\ ~(atrStopDistance > 0 /\ risk1000 > 0) => maxShares = 0
     /\ maxShares > 0 =>
          /\ calc.totalRiskAmount = maxShares * atrStopDistance
          /\ calc.totalRiskAmount * 1000 <= risk1000
          /\ calc.totalRiskAmount * 1000 > risk1000 - atr1000
     /\ (accountSize = Dollars(10000) /\ riskPercent = Percent(1)
           /\ atrStopDistance = Cents(450)) =>
          (maxShares = 22 /\ calc.totalRiskAmount = Dollars(99))

\* a rounded-down share count on inputs the user typed: $100 risk, $7 stop
SharesRoundedDown ==
  /\ accountSize = Dollars(10000) /\ riskPercent = Percent(1)
  /\ atrStopDistance = Dollars(7)
  /\ maxShares = 14 /\ calc.totalRiskAmount = Dollars(98)

\* C3: with shares > 0 and actualRisk = shares * atrStopDistance, the result has
\* stopPrice = entryPrice - atrStopDistance (when that is not negative),
\* potentialGain = actualRisk * targetRMultiple, targetPrice = entryPrice +
\* atrStopDistance * targetRMultiple, netRisk = actualRisk + totalTradeCost,
\* netGain = potentialGain - totalTradeCost, and so netRisk - netGain =
\* 2 * totalTradeCost + actualRisk - potentialGain.  (targetRMultiple is in
\* halves: twice a product with it is the product with the stored number.)
SizedResultFields ==
  maxShares > 0 =>
    LET actualRisk == maxShares * atrStopDistance
    IN /\ entryPrice - atrStopDistance >= 0 =>
            calc.stopPrice = entryPrice - atrStopDistance
       /\ 2 * calc.potentialGain = actualRisk * targetRMultiple
       /\ 2 * (calc.targetRPrice - entryPrice) = atrStopDistance * targetRMultiple
       /\ calc.netRisk = actualRisk + totalTradeCost
       /\ calc.netGain = calc.potentialGain - totalTradeCost
       /\ calc.netRisk - calc.netGain =
            2 * totalTradeCost + actualRisk - calc.potentialGain
       /\ (entryPrice = Dollars(150) /\ atrStopDistance = Cents(450)
             /\ targetRMultiple = RMult(2) /\ totalTradeCost = Dollars(5)
             /\ maxShares = 22) =>
            /\ calc.stopPrice = Cents(14550)
            /\ calc.targetRPrice = Dollars(159)
            /\ calc.potentialGain = Dollars(198)
            /\ calc.netRisk = Dollars(104)
            /\ calc.netGain = Dollars(193)

\* a sized result on typed inputs: 14 shares at a $7 stop, 1.5 R, $5 cost
SizedResultReached ==
  /\ maxShares = 14 /\ atrStopDistance = Dollars(7) /\ entryPrice = Dollars(150)
  /\ targetRMultiple = 3 /\ totalTradeCost = Dollars(5)
  /\ calc.potentialGain = Dollars(147) /\ calc.targetRPrice = Cents(16050)
  /\ calc.netRisk = Dollars(103) /\ calc.netGain = Dollars(142)
  /\ calc.stopPrice = Dollars(143)

\* ---- The analytics over the journal the listener delivers ----
\* The records the user's collection may come to hold: risk amount, R-multiple,
\* cost and marked result, with the R each realizes.
Kind(risk, r, cost, result) ==
  [totalRiskAmount |-> risk, targetRMultiple |-> r, totalCost |-> cost,
   result |-> result]

TradeKinds ==
  { \* $100 at 2 R with a $5 cost, the specification's example: 1.95, -1.05, -0.05
    Kind(Dollars(100), RMult(2), Dollars(5), "Win"),
    Kind(Dollars(100), RMult(2), Dollars(5), "Loss"),
    Kind(Dollars(100), RMult(2), Dollars(5), "Scratch"),
    Kind(Dollars(100), RMult(2), Dollars(5), "Pending"),
    \* no cost: a Win of exactly 2.5, 1.5 and 0.5 R, a Loss of exactly -1 R
    Kind(Dollars(100), 5, 0, "Win"),
    Kind(Dollars(100), 5, 0, "Loss"),
    Kind(Dollars(100), 3, 0, "Win"),
    Kind(Dollars(100), 1, 0, "Win"),
    \* a cost of half the risk and of more: a Scratch of exactly -0.5 R, and -0.6 R
    Kind(Dollars(100), 1, Dollars(50), "Scratch"),
    Kind(Dollars(100), RMult(2), Dollars(60), "Scratch"),
    \* amounts between two cents: $100.004 at 3 R, 2.95.. and -1.05.. R
    Kind(Dollars(100) + 2, RMult(3), Dollars(5), "Win"),
    Kind(Dollars(100) + 2, RMult(3), Dollars(5), "Loss"),
    \* no risk amount: a record no saveTrade of this form writes, which the
    \* histogram's filter leaves out
    Kind(0, RMult(2), Dollars(5), "Win"),
    Kind(0, RMult(2), Dollars(5), "Pending") }

\* the entry a one-share trade of that risk would have written
KindEntry(tpl) ==
  [ createTradeEntry(IF tpl.totalRiskAmount > 0 THEN 1 ELSE 0,
                     tpl.totalRiskAmount, tpl.totalCost,
                     tpl.totalRiskAmount + tpl.totalCost,
                     TimesR(tpl.totalRiskAmount, tpl.targetRMultiple) - tpl.totalCost,
                     Dollars(150),
                     IF tpl.totalRiskAmount > 0 THEN tpl.totalRiskAmount ELSE Dollars(150),
                     "QQQ", NoAnalysis, tpl.targetRMultiple)
    EXCEPT !.result = tpl.result ]

\* The state once the listeners are attached and have delivered their first
\* snapshots of an empty store.
InitAnalytics ==
  /\ configPresent = TRUE /\ mounted = TRUE /\ db = TRUE
  /\ userId = "uid" /\ isAuthReady = TRUE /\ dbError = ""
  /\ loadingSettings = FALSE /\ settingsMessage = ""
  /\ accountSize = FALLBACK_ACCOUNT_SIZE
  /\ riskPercent = FALLBACK_RISK_PERCENT
  /\ entryPrice = FALLBACK_ENTRY_PRICE
  /\ atrStopDistance = FALLBACK_ATR_STOP
  /\ targetRMultiple = FALLBACK_R_MULTIPLE
  /\ totalTradeCost = FALLBACK_TRADE_COST
  /\ calcResultMessage = NoMessage
  /\ tradeHistory = <<>> /\ saving = FALSE /\ saveMessage = ""
  /\ settingsDoc = NoDoc /\ journalDocs = <<>> /\ clock = 0
  /\ pendingAdd = <<>> /\ pendingSetDoc = <<>>
  /\ settingsSub = "idle" /\ journalSub = "idle"
  /\ saveTimers = 0 /\ settingsTimers = 0
  /\ ticker = "QQQ" /\ newsAnalysis = NoAnalysis
  /\ loadingNews = FALSE /\ newsError = NoMessage /\ newsCalls = <<>>
  /\ updateStatus = <<>> /\ pendingUpdate = <<>> /\ pendingDelete = <<>>
  /\ rowTimers = <<>>

\* A record appears in the user's collection (written and marked by any session
\* of the user) and the journal listener delivers the collection.
JournalRecordArrives(tpl) ==
  /\ Len(journalDocs) < MaxTrades
  /\ clock' = clock + 1
  /\ journalDocs' = Append(journalDocs,
                           StoredDoc(KindEntry(tpl), clock + 1, clock + 1))
  /\ \E docs \in Orderings(journalDocs') : tradeHistory' = OnJournalSnapshot(docs)
  /\ UNCHANGED <<firebaseVars, settingsVars, formVars, calcResultMessage, saving,
                 saveMessage, pendingAdd, journalSub, saveTimers, newsVars, rowVars>>

\* the account sizes typed while the journal is shown: cleared, $100, $10000
AccountTexts == {EmptyText, NumText(Dollars(100)), NumText(Dollars(10000))}

NextAnalytics ==
  \/ \E tpl \in TradeKinds : JournalRecordArrives(tpl)
  \/ \E value \in AccountTexts :
       HandleInputChange("setAccountSize", value, MinProp("setAccountSize"))

SpecAnalytics == InitAnalytics /\ [][NextAnalytics]_vars

\* the journal oldest first, as the walk replays it
chronologicalTrades == Reverse(tradeHistory)

\* ---- The analytics stated from the specification ----
\* The realized P&L rule of the specification (section 4.2): grossGain =
\* grossRisk * targetRMultiple (the multiple is in halves).
RulePnL(t) ==
  LET grossRisk == t.totalRiskAmount
      grossGain == (grossRisk * t.targetRMultiple) \div 2
  IN CASE t.result = "Win" -> grossGain - t.totalCost
       [] t.result = "Loss" -> 0 - (grossRisk + t.totalCost)
       [] t.result = "Scratch" -> 0 - t.totalCost
       [] OTHER -> 0

\* the chronological positions of the closed (non-Pending) records
ClosedPositions == {n \in 1..Len(tradeHistory) : chronologicalTrades[n].result # "Pending"}

\* the equity after the first n records: accountSize plus the P&L of the closed ones
RECURSIVE RuleEquity(_)
RuleEquity(n) ==
  IF n = 0 THEN accountSize
  ELSE RuleEquity(n - 1) + RulePnL(chronologicalTrades[n])

MaxOf(S) == CHOOSE x \in S : \A y \in S : y <= x

curve == equityCurveData.curve

\* C4: the equity curve and the histogram realize the same P&L for a record: a
\* Win grossGain - totalCost, a Loss -(grossRisk + totalCost), a Scratch
\* -totalCost; a Pending record adds no curve point and no histogram count, and
\* for every closed record both count, the two P&L values are equal.
SharedRealizedRule ==
  LET c == curve
      chron == chronologicalTrades
      Points(n) == {i \in 1..Len(c) : c[i].tradeNumber = n}
  IN /\ \A n \in 1..Len(chron) :
          LET t == chron[n]
          IN /\ t.result # "Pending" =>
                  /\ CurveRealized(t) = RulePnL(t)
                  /\ \E i \in Points(n) :
                       /\ c[i].gain = ToFixed2(RulePnL(t))
                       /\ c[i].result = t.result
             /\ (t.result # "Pending" /\ t.totalRiskAmount > 0) =>
                  /\ HistogramRealized(t) = RulePnL(t)
                  /\ HistogramRealized(t) = CurveRealized(t)
             /\ t.result = "Pending" =>
                  /\ Points(n) = {}
                  /\ ~InHistogram(t)
     /\ \A i \in 1..Len(c) :
          c[i].tradeNumber = 0 \/ chron[c[i].tradeNumber].result # "Pending"

\* a Win, a Loss with a cost and a Pending record are in the journal
WinLossAndPending ==
  /\ Len(tradeHistory) = 3
  /\ \E a, b, c \in 1..3 :
       /\ tradeHistory[a].result = "Win"
       /\ tradeHistory[b].result = "Loss" /\ tradeHistory[b].totalCost > 0
            /\ tradeHistory[b].totalRiskAmount > 0
       /\ tradeHistory[c].result = "Pending"
  /\ Len(curve) = 3

\* C5: in the walk, equity starts at accountSize and each closed record adds its
\* realized P&L; highWaterMark is the running maximum of equity (so it is never
\* below equity and never decreases); maxDrawdownDollar is the largest
\* highWaterMark - equity over the walk, 0 when equity never falls below its
\* maximum.  The curve points carry these values rounded to cents.
EquityWalkInvariant ==
  Len(tradeHistory) > 0 =>
    LET n == Len(tradeHistory)
        chron == chronologicalTrades
        c == curve
        walk == [k \in 0..n |-> WalkAfter(chron, accountSize, k)]
        equity == [k \in 0..n |-> RuleEquity(k)]
        highWater == [k \in 0..n |-> MaxOf({equity[j] : j \in 0..k})]
    IN /\ \A k \in 0..n :
            /\ walk[k].currentEquity = equity[k]
            /\ walk[k].highWaterMark = highWater[k]
            /\ walk[k].highWaterMark >= walk[k].currentEquity
            /\ k > 0 => walk[k].highWaterMark >= walk[k - 1].highWaterMark
       /\ equityCurveData.maxDrawdownDollar =
            MaxOf({highWater[k] - equity[k] : k \in 0..n})
       /\ (\A k \in 0..n : equity[k] = highWater[k]) =>
            equityCurveData.maxDrawdownDollar = 0
       /\ \A i \in 1..Len(c) :
            /\ c[i].highWaterMark >= c[i].equity
            /\ i > 1 => c[i].highWaterMark >= c[i - 1].highWaterMark
            /\ i > 1 => /\ c[i].equity = ToFixed2(equity[c[i].tradeNumber])
                        /\ c[i].highWaterMark = ToFixed2(highWater[c[i].tradeNumber])

\* the specification's examples: a $100, 2 R, $5 Win, then the same as a Loss
IsExampleTrade(t, result) ==
  /\ t.totalRiskAmount = Dollars(100) /\ t.targetRMultiple = RMult(2)
  /\ t.totalCost = Dollars(5) /\ t.result = result

\* a Win then a Loss then a Win from $10000: 10195, 10090 (drawdown 105), 10285
WinLossWinWalk ==
  /\ accountSize = Dollars(10000) /\ Len(tradeHistory) = 3
  /\ IsExampleTrade(chronologicalTrades[1], "Win")
  /\ IsExampleTrade(chronologicalTrades[2], "Loss")
  /\ IsExampleTrade(chronologicalTrades[3], "Win")
  /\ curve[2].equity = Dollars(10195) /\ curve[3].equity = Dollars(10090)
  /\ curve[3].highWaterMark = Dollars(10195)
  /\ curve[4].equity = Dollars(10285) /\ curve[4].highWaterMark = Dollars(10285)
  /\ equityCurveData.maxDrawdownDollar = Dollars(105)

\* C6: the curve is empty exactly when the trade list is empty; otherwise its
\* first point is (tradeNumber 0, equity accountSize) and its length is 1 + the
\* number of closed records, so only-Pending records give exactly one point.
CurveLength ==
  /\ (curve = <<>>) <=> (tradeHistory = <<>>)
  /\ Len(tradeHistory) > 0 =>
       /\ curve[1].tradeNumber = 0
       /\ curve[1].equity = accountSize
       /\ Len(curve) = 1 + Cardinality(ClosedPositions)
  /\ (Len(tradeHistory) > 0 /\ ClosedPositions = {}) => Len(curve) = 1
  /\ (Len(tradeHistory) = 1 /\ accountSize = Dollars(10000)
        /\ IsExampleTrade(tradeHistory[1], "Win")) =>
       /\ Len(curve) = 2
       /\ curve[1].tradeNumber = 0 /\ curve[1].equity = Dollars(10000)
       /\ curve[2].tradeNumber = 1 /\ curve[2].equity = Dollars(10195)
       /\ equityCurveData.maxDrawdownDollar = 0

\* two records, both Pending: the start point alone
OnlyPendingRecords ==
  /\ Len(tradeHistory) = 2
  /\ \A i \in 1..2 : tradeHistory[i].result = "Pending"
  /\ Len(curve) = 1 /\ curve[1].equity = accountSize

\* ---- The histogram stated from the specification (section 4.4) ----
\* the positions of the records the histogram takes: closed, with a risk amount
Qualifying == {n \in 1..Len(tradeHistory) :
                 /\ tradeHistory[n].result # "Pending"
                 /\ tradeHistory[n].totalRiskAmount > 0}

\* the bucket of the table whose interval holds R = pnl / risk, for risk > 0:
\* the intervals are compared after multiplying through by 2 * risk
RuleBucket(t) ==
  LET p2 == 2 * RulePnL(t)
      g == t.totalRiskAmount
  IN CASE p2 < 0 - 2 * g -> KeyWorst
       [] 0 - 2 * g <= p2 /\ p2 < 0 - g -> KeyLoss
       [] 0 - g <= p2 /\ p2 <= g -> KeyScratch
       [] g < p2 /\ p2 <= 3 * g -> KeyPartial
       [] 3 * g < p2 /\ p2 <= 5 * g -> KeyTarget
       [] 5 * g < p2 -> KeyBest

\* the fraction f, in lowest terms, is the quotient n / d, for d > 0
IsQuotient(f, n, d) ==
  /\ f.den > 0 /\ d % f.den = 0
  /\ f.num * (d \div f.den) = n

\* the histogram entry of a bucket
EntryOf(key) == CHOOSE e \in {rMultipleDistribution[i] : i \in 1..Len(rMultipleDistribution)} :
                  e.rMultiple = key

\* C7: every qualifying record falls in exactly one bucket, the one whose
\* interval holds its realizedR = realizedPnL / totalRiskAmount: R < -1 Worst
\* Case, -1 <= R < -0.5 Standard Loss, -0.5 <= R <= 0.5 Scratch, 0.5 < R <= 1.5
\* Partial Win, 1.5 < R <= 2.5 Target Hit, R > 2.5 Best Case; so R = -1 is a
\* Standard Loss, R = -0.5 and 0.5 are Scratch, R = 1.5 is a Partial Win and
\* R = 2.5 a Target Hit, and each bucket counts the records of its interval.
BucketOfRealizedR ==
  /\ \A n \in Qualifying :
       LET t == tradeHistory[n]
           r == RealizedR(t)
           g == t.totalRiskAmount
       IN /\ IsQuotient(r, RulePnL(t), g)
          /\ BinKey(r) = RuleBucket(t)
          /\ Cardinality({i \in 1..Len(BinKeys) : BinKeys[i] = BinKey(r)}) = 1
          /\ RulePnL(t) = 0 - g => BinKey(r) = KeyLoss
          /\ 2 * RulePnL(t) = 0 - g => BinKey(r) = KeyScratch
          /\ 2 * RulePnL(t) = g => BinKey(r) = KeyScratch
          /\ 2 * RulePnL(t) = 3 * g => BinKey(r) = KeyPartial
          /\ 2 * RulePnL(t) = 5 * g => BinKey(r) = KeyTarget
          /\ IsExampleTrade(t, "Win") => BinKey(r) = KeyTarget
  /\ LET dist == rMultipleDistribution
         Entry(key) == CHOOSE e \in {dist[i] : i \in 1..Len(dist)} : e.rMultiple = key
     IN \A i \in 1..Len(BinKeys) :
          Entry(BinKeys[i]).count =
            Cardinality({n \in Qualifying : RuleBucket(tradeHistory[n]) = BinKeys[i]})

\* a Win of exactly 2.5 R, a Loss of exactly -1 R and a Scratch of exactly
\* -0.5 R are counted as Target Hit, Standard Loss and Scratch
BoundaryRecordsBinned ==
  /\ Len(tradeHistory) = 3
  /\ \E a, b, c \in 1..3 :
       /\ tradeHistory[a].result = "Win"
            /\ 2 * RulePnL(tradeHistory[a]) = 5 * tradeHistory[a].totalRiskAmount
       /\ tradeHistory[b].result = "Loss"
            /\ RulePnL(tradeHistory[b]) = 0 - tradeHistory[b].totalRiskAmount
       /\ tradeHistory[c].result = "Scratch"
            /\ 2 * RulePnL(tradeHistory[c]) = 0 - tradeHistory[c].totalRiskAmount
       /\ {tradeHistory[a].totalRiskAmount, tradeHistory[b].totalRiskAmount,
           tradeHistory[c].totalRiskAmount} = {Dollars(100)}
  /\ EntryOf(KeyTarget).count = 1
  /\ EntryOf(KeyLoss).count = 1
  /\ EntryOf(KeyScratch).count = 1

RECURSIVE SumCounts(_, _)
SumCounts(entries, n) ==
  IF n = 0 THEN 0 ELSE SumCounts(entries, n - 1) + entries[n].count

\* C8: the histogram always has six entries, in the order Worst Case, -1R, 0R,
\* 1R, 2R, Best Case, also when counts are zero, and its counts add up to the
\* number of records with result # Pending and totalRiskAmount > 0.
SixBinsInOrder ==
  LET dist == rMultipleDistribution
  IN /\ Len(dist) = 6
     /\ [i \in 1..6 |-> dist[i].rMultiple] =
          << "Worst Case (R < -1)", "-1R (Standard Loss)", "0R (Scratch/Cost)",
             "1R (Small/Partial Win)", "2R (Target Hit)", "Best Case (R > 2)" >>
     /\ SumCounts(dist, Len(dist)) = Cardinality(Qualifying)
     /\ \A i \in 1..6 : dist[i].count >= 0

\* a closed record without a risk amount, a Pending record and one qualifying
\* record: five of the six entries are zero and the counts add up to 1
OneOfThreeCounted ==
  /\ Len(tradeHistory) = 3
  /\ \E a, b, c \in 1..3 :
       /\ tradeHistory[a].result = "Win" /\ tradeHistory[a].totalRiskAmount = 0
       /\ tradeHistory[b].result = "Pending" /\ tradeHistory[b].totalRiskAmount > 0
       /\ tradeHistory[c].result = "Loss" /\ tradeHistory[c].totalRiskAmount > 0
  /\ Len(rMultipleDistribution) = 6
  /\ Cardinality({i \in 1..6 : rMultipleDistribution[i].count = 0}) = 5
  /\ SumCounts(rMultipleDistribution, 6) = 1

\* the positions of the records marked with one of the results
Marked(results) == {n \in 1..Len(tradeHistory) : tradeHistory[n].result \in results}

\* C9: totalTrades is the number of records, wins the number of Win records,
\* losses the number of Loss or Scratch records, pending the number of Pending
\* records, and wins + losses + pending = totalTrades.
MetricCounts ==
  (\A n \in 1..Len(tradeHistory) :
      tradeHistory[n].result \in {"Pending", "Win", "Loss", "Scratch"}) =>
    /\ performanceMetrics.totalTrades = Len(tradeHistory)
    /\ performanceMetrics.wins = Cardinality(Marked({"Win"}))
    /\ performanceMetrics.losses = Cardinality(Marked({"Loss", "Scratch"}))
    /\ performanceMetrics.pending = Cardinality(Marked({"Pending"}))
    /\ performanceMetrics.wins + performanceMetrics.losses
         + performanceMetrics.pending = performanceMetrics.totalTrades

\* a Win, a Scratch and a Pending record: one win, one loss, one pending
WinScratchPendingCounted ==
  /\ Len(tradeHistory) = 3
  /\ Marked({"Win"}) # {} /\ Marked({"Scratch"}) # {} /\ Marked({"Pending"}) # {}
  /\ performanceMetrics.wins = 1
  /\ performanceMetrics.losses = 1
  /\ performanceMetrics.pending = 1


\* C10: winRate = wins / closedCount * 100 and expectedValue = totalProfitLoss /
\* closedCount when closedCount > 0, both 0 when closedCount = 0;
\* maxDrawdownPercent = maxDrawdownDollar / accountSize * 100 when accountSize >
\* 0 and 0 when accountSize = 0; winRate is between 0 and 100.
RatioMetricsGuarded ==
  LET m == performanceMetrics
      closedCount == Cardinality(Marked({"Win", "Loss", "Scratch"}))
      wins == Cardinality(Marked({"Win"}))
  IN /\ closedCount > 0 =>
          /\ IsQuotient(m.winRate, wins * 100, closedCount)
          /\ IsQuotient(m.expectedValue, m.totalProfitLoss, closedCount)
     /\ closedCount = 0 =>
          /\ IsQuotient(m.winRate, 0, 1)
          /\ IsQuotient(m.expectedValue, 0, 1)
     /\ accountSize > 0 =>
          IsQuotient(m.maxDrawdownPercent, m.maxDrawdownDollar * 100, accountSize)
     /\ accountSize = 0 => IsQuotient(m.maxDrawdownPercent, 0, 1)
     /\ m.winRate.num >= 0 /\ m.winRate.num <= 100 * m.winRate.den
     /\ m.totalProfitLoss = m.finalEquity - accountSize
     /\ m.maxDrawdownDollar = equityCurveData.maxDrawdownDollar

\* the account size is cleared to 0 while the journal holds a Win and two
\* losing records: a drawdown in dollars, 0 percent, and a win rate of 100/3
ZeroAccountWithDrawdown ==
  /\ accountSize = 0
  /\ Len(tradeHistory) = 3
  /\ Cardinality(Marked({"Win"})) = 1
  /\ Cardinality(Marked({"Loss", "Scratch"})) = 2
  /\ performanceMetrics.maxDrawdownDollar > 0
  /\ performanceMetrics.maxDrawdownPercent = Zero
  /\ performanceMetrics.winRate = [num |-> 100, den |-> 3]
  /\ performanceMetrics.expectedValue.den > 0

\* the largest element of a non-empty set of positions, 0 for the empty set
LastOf(S) == IF S = {} THEN 0 ELSE CHOOSE x \in S : \A y \in S : y <= x

\* C11: finalEquity is the equity of the last curve point (the account size plus
\* the realized P&L of every closed record, rounded to cents; the start point's
\* account size when no record is closed), or accountSize when the curve is
\* empty; totalProfitLoss = finalEquity - accountSize; the reported
\* maxDrawdownDollar is the walk's largest highWaterMark - equity.
FinalEquityFromCurve ==
  LET m == performanceMetrics
      n == Len(tradeHistory)
      c == curve
      equity == [k \in 0..n |-> RuleEquity(k)]
      highWater == [k \in 0..n |-> MaxOf({equity[j] : j \in 0..k})]
  IN /\ c = <<>> => m.finalEquity = accountSize
     /\ c # <<>> =>
          /\ m.finalEquity = c[Len(c)].equity
          /\ c[Len(c)].tradeNumber = LastOf(ClosedPositions)
          /\ m.finalEquity = IF ClosedPositions = {} THEN accountSize
                             ELSE ToFixed2(equity[LastOf(ClosedPositions)])
     /\ m.totalProfitLoss = m.finalEquity - accountSize
     /\ m.maxDrawdownDollar = MaxOf({highWater[k] - equity[k] : k \in 0..n})
     /\ m.maxDrawdownDollar = equityCurveData.maxDrawdownDollar

\* a Win, then a Loss, then a Pending record from $10000: the last point is the
\* Loss's, final equity 10090, profit 90, drawdown 105
FinalEquityAfterWinLoss ==
  /\ accountSize = Dollars(10000) /\ Len(tradeHistory) = 3
  /\ IsExampleTrade(chronologicalTrades[1], "Win")
  /\ IsExampleTrade(chronologicalTrades[2], "Loss")
  /\ IsExampleTrade(chronologicalTrades[3], "Pending")
  /\ performanceMetrics.finalEquity = Dollars(10090)
  /\ performanceMetrics.totalProfitLoss = Dollars(90)
  /\ performanceMetrics.maxDrawdownDollar = Dollars(105)

\* the empty journal: no curve, six bins of count 0, every count and ratio 0
EmptyJournalZeros ==
  LET m == performanceMetrics
      dist == rMultipleDistribution
  IN /\ curve = <<>>
     /\ m.totalTrades = 0 /\ m.wins = 0 /\ m.losses = 0 /\ m.pending = 0
     /\ m.winRate = Zero /\ m.expectedValue = Zero
     /\ m.totalProfitLoss = 0
     /\ m.maxDrawdownDollar = 0 /\ m.maxDrawdownPercent = Zero
     /\ Len(dist) = 6
     /\ \A i \in 1..Len(dist) : dist[i].rMultiple = BinKeys[i] /\ dist[i].count = 0

\* C12 as stated: for an empty record list the equity curve is empty, every
\* performance metric (finalEquity among them) is zero, and the histogram has
\* all six buckets with count 0.
EmptyJournalAllZero ==
  tradeHistory = <<>> =>
    (EmptyJournalZeros /\ performanceMetrics.finalEquity = 0)

\* C12 as amended: for an empty record list the equity curve is empty, the
\* histogram has all six buckets with count 0, and every performance metric is
\* zero except finalEquity, which is the account size.
EmptyJournalZerosButEquity ==
  tradeHistory = <<>> =>
    (EmptyJournalZeros /\ performanceMetrics.finalEquity = accountSize)

\* the empty journal shown with an account size of $100 typed in
EmptyJournalWithAccount ==
  /\ tradeHistory = <<>> /\ journalDocs = <<>>
  /\ accountSize = Dollars(100)
  /\ performanceMetrics.finalEquity = Dollars(100)
  /\ performanceMetrics.totalProfitLoss = 0

\* ---- The sentiment requests ----
\* the request has ended: its text was shown or its error was set
Ended(call) == call.phase \in {"done", "failed"}

\* request i ends in error in this step
EndsInError(i) ==
  /\ i \in 1..Len(newsCalls)
  /\ newsCalls[i].phase # "failed"
  /\ newsCalls'[i].phase = "failed"

\* the first n of the waits 1 s, 2 s, 4 s
BackoffWaits(n) ==
  [k \in 1..n |-> IF k = 1 THEN 1000 ELSE IF k = 2 THEN 2000 ELSE 4000]

\* C13: a sentiment request makes at most 4 fetch attempts, the first and at
\* most 3 retries, sleeping 1 s, 2 s and 4 s before the successive retries; a
\* rejected fetch, a response that is not ok and a response without text each
\* lead to a retry while fewer than 3 were made; when the fourth attempt fails
\* the error message is set and the request makes no further attempt; every
\* request ends.
RetriesBounded ==
  /\ [](\A i \in 1..Len(newsCalls) :
          LET call == newsCalls[i]
          IN /\ call.attempts <= 4
             /\ call.attempts = call.retryCount + 1
             /\ call.phase = "waiting" => call.waits = BackoffWaits(call.attempts)
             /\ call.phase # "waiting" => call.waits = BackoffWaits(call.attempts - 1)
             /\ call.phase = "failed" => call.attempts = 4)
  /\ [][\A i \in 1..Len(newsCalls) :
          /\ \A failure \in FetchFailures :
               (FetchFails(i, failure) /\ newsCalls[i].attempts < 4) =>
                  newsCalls'[i].phase = "waiting"
          /\ EndsInError(i) =>
               /\ newsCalls[i].attempts = 4
               /\ newsError' = <<"Failed to get analysis", newsCalls[i].ticker, 3>>
          /\ Ended(newsCalls[i]) => newsCalls'[i] = newsCalls[i]]_vars
  /\ \A i \in 1..MaxRequests :
       (i <= Len(newsCalls)) ~> (i <= Len(newsCalls) /\ Ended(newsCalls[i]))

\* a request failed four times, after sleeping 1 s, 2 s and 4 s
FourthAttemptFailed ==
  \E i \in 1..Len(newsCalls) :
    /\ newsCalls[i].phase = "failed"
    /\ newsCalls[i].attempts = 4
    /\ newsCalls[i].waits = <<1000, 2000, 4000>>
    /\ newsError = MsgNewsFailed(newsCalls[i].ticker)

\* C14 as stated: when a request ends in error, an analysis that was displayed
\* before the request started is still held in newsAnalysis.
PriorAnalysisSurvivesFailure ==
  [][\A i \in 1..Len(newsCalls) :
       (EndsInError(i) /\ newsCalls[i].shown # NoAnalysis) =>
          newsAnalysis' = newsCalls[i].shown]_vars

\* C14 as amended: a request that exhausts its retries sets the error message
\* for its ticker and leaves the form, the ticker, the journal and the settings
\* untouched; the analysis displayed before it is cleared when the request
\* starts, and newsAnalysis is null when the request has ended in error.
FailureClearsAnalysisOnly ==
  [][/\ \A i \in 1..Len(newsCalls) :
          EndsInError(i) =>
            /\ newsError' = MsgNewsFailed(newsCalls[i].ticker)
            /\ newsAnalysis' = NoAnalysis
            /\ loadingNews' = FALSE
            /\ UNCHANGED <<firebaseVars, settingsVars, formVars, calcResultMessage,
                           journalVars, ticker, rowVars>>
     /\ Len(newsCalls') > Len(newsCalls) =>
          /\ newsAnalysis' = NoAnalysis
          /\ newsCalls'[Len(newsCalls')].shown = newsAnalysis]_vars

\* a request made while an analysis was on display has ended in error, and the
\* panel holds the error and no analysis
FailedAfterShownAnalysis ==
  \E i \in 1..Len(newsCalls) :
    /\ newsCalls[i].phase = "failed"
    /\ newsCalls[i].shown = [text |-> "Long"]
    /\ newsAnalysis = NoAnalysis
    /\ newsError = MsgNewsFailed(newsCalls[i].ticker)

\* ---- The records the confirm action writes ----
\* the records the store holds and the entries handed to addDoc
Persisted ==
  {journalDocs[i] : i \in 1..Len(journalDocs)}
    \cup {pendingAdd[i] : i \in 1..Len(pendingAdd)}

\* C15: while accountSize <= 0 or entryPrice <= 0 or atrStopDistance <= 0 a run
\* of saveTrade creates no record, and every persisted record has
\* entryPrice > 0 and atrStopDistance > 0.
NoTradeFromNonPositiveInputs ==
  [][/\ (SaveTrade /\ (accountSize <= 0 \/ entryPrice <= 0 \/ atrStopDistance <= 0)) =>
          (pendingAdd' = pendingAdd /\ journalDocs' = journalDocs)
     /\ \A rec \in Persisted' : rec.entryPrice > 0 /\ rec.atrStopDistance > 0]_vars

\* C16: every record persisted to the journal has targetRMultiple >= 0.5 (1 in
\* halves), after any form edits, settings loads and confirm actions.
PersistedRMultipleAtLeastHalf ==
  \A rec \in Persisted : rec.targetRMultiple >= 1

\* the sizing identities on the fields a record carries (targetRMultiple is in
\* halves: twice a product with it is the product with the stored number)
RecordIdentities(rec) ==
  /\ rec.totalRiskAmount = rec.maxShares * rec.atrStopDistance
  /\ rec.netRisk = rec.totalRiskAmount + rec.totalCost
  /\ 2 * (rec.netGain + rec.totalCost) = rec.totalRiskAmount * rec.targetRMultiple

\* C17: every record of the journal satisfies, with the values in effect when
\* it was created, totalRiskAmount = maxShares * atrStopDistance, netRisk =
\* totalRiskAmount + totalCost and netGain = totalRiskAmount * targetRMultiple
\* - totalCost; the entry a confirm action hands to the store carries the
\* inputs of that moment, and no later form edit or settings load changes a
\* stored record.
StoredValuesFromCreation ==
  [][/\ \A rec \in Persisted' \cup {tradeHistory'[i] : i \in 1..Len(tradeHistory')} :
          RecordIdentities(rec)
     /\ Len(pendingAdd') > Len(pendingAdd) =>
          LET entry == pendingAdd'[Len(pendingAdd')]
          IN /\ entry.atrStopDistance = atrStopDistance
             /\ entry.targetRMultiple = targetRMultiple
             /\ entry.totalCost = totalTradeCost
             /\ entry.entryPrice = entryPrice
             /\ entry.maxShares * atrStopDistance * 1000 <= accountSize * riskPercent
     /\ formVars' # formVars =>
          /\ journalDocs' = journalDocs
          /\ pendingAdd' = pendingAdd
          /\ tradeHistory' = tradeHistory]_vars

\* a record written with a $4.50 stop, 0.5 R and a $7 cost (22 shares, $99 at
\* risk, net risk 106, net gain 42.50) is in the journal while the form holds a
\* $150 stop
RecordOutlivesItsInputs ==
  /\ atrStopDistance = Dollars(150)
  /\ \E i \in 1..Len(tradeHistory) :
       /\ tradeHistory[i].atrStopDistance = Cents(450)
       /\ tradeHistory[i].maxShares = 22
       /\ tradeHistory[i].totalRiskAmount = Dollars(99)
       /\ tradeHistory[i].targetRMultiple = 1
       /\ tradeHistory[i].netRisk = Dollars(106)
       /\ tradeHistory[i].netGain = Cents(4250)

\* the ids of the documents of a collection
IdsOf(docs) == {docs[i].id : i \in 1..Len(docs)}

\* the document with this id
DocOf(docs, tradeId) == docs[DocIndex(docs, tradeId)]

\* C18: a record enters the store with result Pending; a step changes of a
\* stored record nothing but its result, and only when an updateTradeResult
\* call completes: then the record the call names has the call's result (Win,
\* Loss or Scratch) and every other record is as it was; the list on display
\* changes only when a snapshot of the store arrives, never by recomputing the
\* analytics.
ResultOnlyMutableField ==
  [][/\ \A tradeId \in IdsOf(journalDocs') \ IdsOf(journalDocs) :
          DocOf(journalDocs', tradeId).result = "Pending"
     /\ \A tradeId \in IdsOf(journalDocs') \cap IdsOf(journalDocs) :
          LET before == DocOf(journalDocs, tradeId)
              after == DocOf(journalDocs', tradeId)
          IN /\ [after EXCEPT !.result = before.result] = before
             /\ after.result # before.result =>
                  /\ pendingUpdate # <<>>
                  /\ pendingUpdate' = Tail(pendingUpdate)
                  /\ Head(pendingUpdate).id = tradeId
                  /\ after.result = Head(pendingUpdate).result
                  /\ after.result \in RowResults
     /\ (pendingUpdate # <<>> /\ pendingUpdate' = Tail(pendingUpdate)
           /\ journalDocs' # journalDocs) =>
          /\ Len(journalDocs') = Len(journalDocs)
          /\ \A i \in 1..Len(journalDocs) :
               \/ journalDocs'[i] = journalDocs[i]
               \/ /\ journalDocs[i].id = Head(pendingUpdate).id
                  /\ journalDocs'[i] =
                       [journalDocs[i] EXCEPT !.result = Head(pendingUpdate).result]
     /\ tradeHistory' # tradeHistory =>
          /\ journalSub = "pending"
          /\ \E docs \in Orderings(journalDocs) :
               tradeHistory' = OnJournalSnapshot(docs)]_vars

\* two records on display, the first marked Loss by an update that has
\* completed, the second still Pending, each with the time it was created at
OneOfTwoMarkedLoss ==
  /\ Len(journalDocs) = 2
  /\ journalDocs[1].result = "Loss"
  /\ journalDocs[1].timestamp = journalDocs[1].id
  /\ journalDocs[2].result = "Pending"
  /\ journalDocs[1].id \in DOMAIN updateStatus
  /\ updateStatus[journalDocs[1].id] = "success"
  /\ Len(tradeHistory) = 2
  /\ \E i \in 1..2 : tradeHistory[i].result = "Loss"

\* the store cannot be used: db, userId or the auth-ready flag is missing
Unavailable == ~db \/ userId = NoUser \/ ~isAuthReady

\* the calls handed to the store and not yet answered
StoreCalls == <<pendingAdd, pendingSetDoc, pendingUpdate, pendingDelete>>

\* C19: while db, userId or the auth-ready flag is missing (an empty Firebase
\* configuration is such a case, and then dbError is set), no step of
\* saveTrade, updateTradeResult, deleteTrade or saveDefaultSettings hands a
\* call to the store or changes a stored record or the stored settings; the
\* only thing saveTrade and saveDefaultSettings do is to show their 'Database
\* not ready' message.
UnavailableStoreUntouched ==
  [][/\ (mounted' /\ ~configPresent') =>
          (Unavailable' /\ dbError' = MsgConfigMissing)
     /\ Unavailable =>
          /\ StoreCalls = <<<<>>, <<>>, <<>>, <<>>>>
          /\ StoreCalls' = StoreCalls
          /\ journalDocs' = journalDocs
          /\ settingsDoc' = settingsDoc
          /\ tradeHistory' = tradeHistory
          /\ updateStatus' = updateStatus
          /\ saving' = saving
          /\ saveMessage' \in {saveMessage, MsgSaveNotReady}
          /\ settingsMessage' \in {settingsMessage, MsgSettingsNotReady}]_vars

\* the configuration is empty, the banner is up, and both saveTrade and
\* saveDefaultSettings have answered with their message
BothRefusedWithoutConfig ==
  /\ ~configPresent /\ mounted
  /\ Unavailable
  /\ dbError = MsgConfigMissing
  /\ saveMessage = MsgSaveNotReady
  /\ settingsMessage = MsgSettingsNotReady
  /\ journalDocs = <<>>

\* the four account-level inputs
AccountInputs ==
  [accountSize |-> accountSize, riskPercent |-> riskPercent,
   targetRMultiple |-> targetRMultiple, totalTradeCost |-> totalTradeCost]

\* accountSize > 0, riskPercent > 0, targetRMultiple >= 0.5, totalTradeCost >= 0
ValidSettings(v) ==
  /\ v.accountSize > 0
  /\ v.riskPercent > 0
  /\ v.targetRMultiple >= 1
  /\ v.totalTradeCost >= 0

\* C20: saving the default settings and loading them is a round trip on the
\* four account-level fields: the document a save hands to the store holds the
\* four inputs and nothing else, and when the settings snapshot delivers a
\* stored document of valid values (a total trade cost of 0 among them) the
\* four inputs equal the document's values, while entryPrice and
\* atrStopDistance are as they were.
SettingsRoundTrip ==
  [][/\ Len(pendingSetDoc') > Len(pendingSetDoc) =>
          pendingSetDoc'[Len(pendingSetDoc')] = AccountInputs
     /\ (settingsSub = "pending" /\ settingsSub' = "idle" /\ settingsDoc # NoDoc
           /\ ValidSettings(settingsDoc)) =>
          /\ AccountInputs' = settingsDoc
          /\ entryPrice' = entryPrice
          /\ atrStopDistance' = atrStopDistance]_vars

\* ---- The journal listener on documents of any timestamps ----
\* a document whose serverTimestamp() is still to be resolved: timestamp null
NoTimestamp == 0 - 1

\* snapshot.docs.map(...): doc.data().timestamp?.toDate ? ... : new Date().
\* The clock read by new Date() is at now for the first late documents of the
\* map and one millisecond on for the rest.
MapSnapshotDocs(docs, now, late) ==
  [k \in 1..Len(docs) |->
     IF docs[k].timestamp = NoTimestamp
       THEN [docs[k] EXCEPT !.timestamp = IF k <= late THEN now ELSE now + 1]
       ELSE docs[k]]

\* the list the handler passes to setTradeHistory
SnapshotHistory(docs, now, late) == OnJournalSnapshot(MapSnapshotDocs(docs, now, late))

\* the specification's example trade as a Win, a Loss and still Pending
SnapshotKinds ==
  { Kind(Dollars(100), RMult(2), Dollars(5), "Win"),
    Kind(Dollars(100), RMult(2), Dollars(5), "Loss"),
    Kind(Dollars(100), RMult(2), Dollars(5), "Pending") }

\* a record enters the store: its timestamp is not resolved yet, or is the
\* millisecond of the record before it, or a later one
JournalRecordStamped(tpl, stamp) ==
  /\ Len(journalDocs) < MaxTrades
  /\ stamp \in {NoTimestamp, clock + 1} \cup (IF clock > 0 THEN {clock} ELSE {})
  /\ clock' = IF stamp = NoTimestamp THEN clock ELSE stamp
  /\ journalDocs' = Append(journalDocs,
                           StoredDoc(KindEntry(tpl), Len(journalDocs) + 1, stamp))
  /\ UNCHANGED <<firebaseVars, settingsVars, formVars, calcResultMessage,
                 tradeHistory, saving, saveMessage, pendingAdd, journalSub,
                 saveTimers, newsVars, rowVars>>

\* the listener's callback on a snapshot that lists the documents in some order
JournalSnapshotDelivered ==
  /\ \E docs \in Orderings(journalDocs) : \E late \in 0..Len(docs) :
       tradeHistory' = SnapshotHistory(docs, clock + 1, late)
  /\ UNCHANGED <<firebaseVars, settingsVars, formVars, calcResultMessage, saving,
                 saveMessage, journalDocs, clock, pendingAdd, journalSub,
                 saveTimers, newsVars, rowVars>>

NextSnapshot ==
  \/ \E tpl \in SnapshotKinds : \E stamp \in NoTimestamp..MaxTrades :
       JournalRecordStamped(tpl, stamp)
  \/ JournalSnapshotDelivered

SpecSnapshot == InitAnalytics /\ [][NextSnapshot]_vars

\* the records of a list, whatever their order
RecordsOf(history) == {history[i] : i \in 1..Len(history)}

\* no record of the list is older than the one after it
NewestFirst(history) ==
  \A i \in 1..(Len(history) - 1) : history[i].timestamp >= history[i + 1].timestamp

\* C22: whatever order a snapshot lists the documents in, the history on
\* display is newest first by timestamp, the curve replays it oldest first,
\* and two deliveries of the same records with the same timestamps give the
\* same curve.
CurveIndependentOfSnapshotOrder ==
  [][LET historyAfter == tradeHistory'
         docsAfter == journalDocs'
         now == clock' + 1
     IN /\ NewestFirst(historyAfter)
        /\ \A docs \in Orderings(docsAfter) : \A late \in 0..Len(docsAfter) :
             LET other == SnapshotHistory(docs, now, late)
             IN RecordsOf(other) = RecordsOf(historyAfter) =>
                  EquityCurve(other, accountSize) =
                    EquityCurve(historyAfter, accountSize)]_vars

\* ---- The journal rows as the buttons drive them ----
\* updateStatus[trade.id] (undefined for a row no operation has touched)
RowStatus(tradeId) ==
  IF tradeId \in DOMAIN updateStatus THEN updateStatus[tradeId] ELSE "undefined"

\* the row of the table with this id
RowOf(tradeId) == tradeHistory[DocIndex(tradeHistory, tradeId)]

\* the Win / Loss / Scratch buttons: rendered for a Pending row, disabled while
\* the status is 'loading'
ResultButtonsEnabled(tradeId) ==
  RowOf(tradeId).result = "Pending" /\ RowStatus(tradeId) # "loading"

\* the delete button: disabled while the status is 'deleting'
DeleteButtonEnabled(tradeId) == RowStatus(tradeId) # "deleting"

\* a record still to be marked
PendingKind == Kind(Dollars(100), RMult(2), Dollars(5), "Pending")

\* the journal of a signed-in session holds two records still to be marked,
\* and the listener has delivered them
RowsInStore ==
  <<StoredDoc(KindEntry(PendingKind), 1, 1), StoredDoc(KindEntry(PendingKind), 2, 2)>>

\* the result buttons pressed in these runs: Mark as Win, Mark as Loss
PressedResults == {"Win", "Loss"}

InitRows ==
  /\ configPresent = TRUE /\ mounted = TRUE /\ db = TRUE
  /\ userId = "uid" /\ isAuthReady = TRUE /\ dbError = ""
  /\ loadingSettings = FALSE /\ settingsMessage = ""
  /\ accountSize = FALLBACK_ACCOUNT_SIZE
  /\ riskPercent = FALLBACK_RISK_PERCENT
  /\ entryPrice = FALLBACK_ENTRY_PRICE
  /\ atrStopDistance = FALLBACK_ATR_STOP
  /\ targetRMultiple = FALLBACK_R_MULTIPLE
  /\ totalTradeCost = FALLBACK_TRADE_COST
  /\ calcResultMessage = NoMessage
  /\ journalDocs = RowsInStore /\ clock = Len(RowsInStore)
  /\ tradeHistory = OnJournalSnapshot(RowsInStore)
  /\ saving = FALSE /\ saveMessage = ""
  /\ settingsDoc = NoDoc
  /\ pendingAdd = <<>> /\ pendingSetDoc = <<>>
  /\ settingsSub = "idle" /\ journalSub = "idle"
  /\ saveTimers = 0 /\ settingsTimers = 0
  /\ ticker = "QQQ" /\ newsAnalysis = NoAnalysis
  /\ loadingNews = FALSE /\ newsError = NoMessage /\ newsCalls = <<>>
  /\ updateStatus = <<>> /\ pendingUpdate = <<>> /\ pendingDelete = <<>>
  /\ rowTimers = <<>>

NextRows ==
  \/ JournalSnapshot
  \/ \E tradeId \in RowIds : \E result \in PressedResults :
       ResultButtonsEnabled(tradeId) /\ UpdateTradeResultStart(tradeId, result)
  \/ UpdateDocResolves
  \/ UpdateDocRejects
  \/ \E tradeId \in RowIds : DeleteButtonEnabled(tradeId) /\ DeleteTradeStart(tradeId)
  \/ DeleteDocResolves
  \/ DeleteDocRejects
  \/ \E k \in 1..Len(rowTimers) : RowTimerFires(k)

SpecRows == InitRows /\ [][NextRows]_vars

\* a call handed to the store is answered, and a timer that is due fires
SpecRowsFair ==
  /\ SpecRows
  /\ WF_vars(UpdateDocResolves \/ UpdateDocRejects)
  /\ WF_vars(DeleteDocResolves \/ DeleteDocRejects)
  /\ WF_vars(RowTimerFires(1))

\* the status of a row once the step is done
StatusAfter(tradeId) ==
  IF tradeId \in DOMAIN updateStatus' THEN updateStatus'[tradeId] ELSE "undefined"

\* the rows whose status a step changes
StatusChanged ==
  {tradeId \in (DOMAIN updateStatus) \cup (DOMAIN updateStatus') :
     StatusAfter(tradeId) # RowStatus(tradeId)}

\* an operation on this row is with the store, or its timer is still to fire
RowBusy(tradeId) ==
  \/ \E i \in 1..Len(pendingUpdate) : pendingUpdate[i].id = tradeId
  \/ \E i \in 1..Len(pendingDelete) : pendingDelete[i] = tradeId
  \/ \E k \in 1..Len(rowTimers) : rowTimers[k].id = tradeId

\* C23: an update that ends without the store holding its result, and a delete
\* that ends with the record still in the store, leave 'error' as the status
\* of their row; every update or delete that ends schedules the timer of its
\* row, 2000 ms for an update and 1000 ms for a delete, the timer sets the
\* status of that row to null, and no step changes the status of a row other
\* than the one it works on; a row with an operation or timer outstanding
\* reaches the status null.
RowStatusReportedAndCleared ==
  /\ [][/\ \A a \in StatusChanged : \A b \in StatusChanged : a = b
        /\ (pendingUpdate # <<>> /\ pendingUpdate' = Tail(pendingUpdate)) =>
             LET call == Head(pendingUpdate)
             IN /\ StatusChanged \subseteq {call.id}
                /\ rowTimers' = Append(rowTimers, [id |-> call.id, delay |-> 2000])
                /\ StatusAfter(call.id) \in {"success", "error"}
                /\ (\/ call.id \notin IdsOf(journalDocs')
                    \/ DocOf(journalDocs', call.id).result # call.result) =>
                     StatusAfter(call.id) = "error"
        /\ (pendingDelete # <<>> /\ pendingDelete' = Tail(pendingDelete)) =>
             LET tradeId == Head(pendingDelete)
             IN /\ StatusChanged \subseteq {tradeId}
                /\ rowTimers' = Append(rowTimers, [id |-> tradeId, delay |-> 1000])
                /\ tradeId \in IdsOf(journalDocs') => StatusAfter(tradeId) = "error"
        /\ Len(rowTimers') < Len(rowTimers) =>
             \E k \in 1..Len(rowTimers) :
               /\ rowTimers' = RemoveAt(rowTimers, k)
               /\ StatusChanged \subseteq {rowTimers[k].id}
               /\ StatusAfter(rowTimers[k].id) = "null"]_vars
  /\ \A tradeId \in 1..Len(RowsInStore) :
       RowBusy(tradeId) ~> (RowStatus(tradeId) = "null")

\* the first row was marked Win and its status has been cleared; a delete of
\* the second row failed a moment ago: 'error', with the 1000 ms timer to fire
FailedDeleteBesideClearedRow ==
  /\ Len(journalDocs) = 2
  /\ journalDocs[1].result = "Win"
  /\ RowStatus(1) = "null"
  /\ RowStatus(2) = "error"
  /\ rowTimers = <<[id |-> 2, delay |-> 1000]>>
  /\ pendingUpdate = <<>> /\ pendingDelete = <<>>

\* C25: while an update or a delete of a row is with the store, the status of
\* that row is 'loading' or 'deleting'; no timer of an earlier operation on the
\* row sets it to null before the later operation has ended.
InFlightRowKeepsBusyStatus ==
  \A tradeId \in DOMAIN updateStatus :
    (\/ \E i \in 1..Len(pendingUpdate) : pendingUpdate[i].id = tradeId
     \/ \E i \in 1..Len(pendingDelete) : pendingDelete[i] = tradeId)
      => RowStatus(tradeId) \in {"loading", "deleting"}

\* the requests whose chain of attempts has not finished
ChainsInFlight == {i \in 1..Len(newsCalls) : ~Ended(newsCalls[i])}

\* C24: from the start of a sentiment request to the end of its chain of
\* attempts (the first fetch, the sleeps and the retries) loadingNews is true,
\* and at most one chain is in flight.
LoadingWhileChainRuns ==
  /\ ChainsInFlight # {} => loadingNews
  /\ Cardinality(ChainsInFlight) <= 1

\* ---- The advisor and the journal: tickers, sentiment requests, confirms ----
\* the text generated for a query that names this ticker (userQuery holds
\* ${ticker}, App.jsx 439)
AdvisorTexts(tick) ==
  IF tick = "SPY" THEN {"SPY trends up. Long"}
  ELSE IF tick = "QQQ" THEN {"QQQ is at risk. Short"}
  ELSE {"No such ticker. Neutral"}

InitAdvisor == Init /\ configPresent /\ settingsDoc = NoDoc

NextAdvisor ==
  \/ MountConfigured
  \/ AuthStateChanged
  \/ \E text \in TickerTexts : SetTicker(text)
  \/ FetchNewsStart
  \/ \E i \in 1..Len(newsCalls) : \E text \in AdvisorTexts(newsCalls[i].ticker) :
       FetchResolves(i, text)
  \/ \E i \in 1..Len(newsCalls) : \E failure \in FetchFailures : FetchFails(i, failure)
  \/ \E i \in 1..Len(newsCalls) : RetryTimerFires(i)
  \/ SaveTradeNotReady
  \/ SaveTradeStart
  \/ AddDocResolves
  \/ AddDocRejects
  \/ SaveTimerFires

SpecAdvisor == InitAdvisor /\ [][NextAdvisor]_vars

\* the tickers an analysis text was generated for
TickersOf(text) == {tick \in {"SPY", "QQQ", "", " "} : text \in AdvisorTexts(tick)}

\* C26: the sentimentText of a record handed to the store is 'N/A' or an
\* analysis fetched for the ticker of that record.
SentimentMatchesTicker ==
  \A rec \in Persisted :
    rec.sentimentText = "N/A" \/ rec.ticker \in TickersOf(rec.sentimentText)

\* ---- The start of a session, with or without a Firebase configuration ----
InitStartup == Init /\ settingsDoc = NoDoc

\* the mount effect runs
MountRuns == MountConfigMissing \/ MountConfigured \/ MountSetupThrows

\* the settings listener answers the snapshot it owes
SettingsListenerAnswers ==
  /\ settingsSub = "pending"
  /\ SettingsSnapshotExists \/ SettingsSnapshotMissing \/ SettingsSnapshotError

NextStartup ==
  \/ MountConfigMissing
  \/ MountConfigured
  \/ MountSetupThrows
  \/ AuthStateChanged
  \/ \E setter \in Setters : \E value \in SettingsTexts(setter) :
       HandleInputChange(setter, value, MinProp(setter))
  \/ SettingsSnapshotExists
  \/ SettingsSnapshotMissing
  \/ SettingsSnapshotError
  \/ SaveDefaultSettingsNotReady
  \/ SaveDefaultSettingsStart
  \/ SetDocResolves
  \/ SetDocRejects
  \/ SettingsTimerFires

\* effects run after the first render, the sign-in completes, the listener is
\* answered
SpecStartup ==
  /\ InitStartup
  /\ [][NextStartup]_vars
  /\ WF_vars(MountRuns)
  /\ WF_vars(AuthStateChanged)
  /\ WF_vars(SettingsListenerAnswers)

\* C27: after the application has started, loadingSettings becomes false, with
\* a Firebase configuration or without one, and when the settings listener
\* reports an error.
LoadingSettingsEnds == <>(~loadingSettings)

\* C28: the tradeNumber values along the curve are strictly increasing, hence
\* unique: the start point has 0 and the points after it have the 1-based
\* chronological positions of the closed records among all records, so a
\* Pending record leaves a gap.
TradeNumbersArePositions ==
  LET points == curve
  IN Len(points) > 0 =>
       /\ points[1].tradeNumber = 0
       /\ \A k \in 1..(Len(points) - 1) :
            points[k].tradeNumber < points[k + 1].tradeNumber
       /\ {points[k].tradeNumber : k \in 2..Len(points)} = ClosedPositions
       /\ \A k \in 2..Len(points) :
            chronologicalTrades[points[k].tradeNumber].result = points[k].result

\* a Win, then a record still Pending, then a Loss: the points are numbered 0, 1, 3
GapAtPendingRecord ==
  /\ Len(tradeHistory) = 3
  /\ chronologicalTrades[1].result = "Win"
  /\ chronologicalTrades[2].result = "Pending"
  /\ chronologicalTrades[3].result = "Loss"
  /\ Len(curve) = 3
  /\ curve[2].tradeNumber = 1
  /\ curve[3].tradeNumber = 3

\* the journal without its n-th record
WithoutRecord(history, n) ==
  [i \in 1..(Len(history) - 1) |-> IF i < n THEN history[i] ELSE history[i + 1]]

\* the count the histogram of a journal shows for a bucket
CountIn(history, key) ==
  LET dist == RMultipleDistribution(history)
  IN (CHOOSE e \in {dist[i] : i \in 1..Len(dist)} : e.rMultiple = key).count

\* the buckets whose count the n-th record raises
CountedIn(n) ==
  {BinKeys[i] : i \in {j \in 1..Len(BinKeys) :
     CountIn(tradeHistory, BinKeys[j]) =
       CountIn(WithoutRecord(tradeHistory, n), BinKeys[j]) + 1}}

\* C29: in the histogram a Loss record with totalRiskAmount > 0 is counted in
\* Worst Case whenever its totalCost > 0 and in -1R only when its totalCost is
\* 0; a Scratch record with totalRiskAmount > 0 is counted in 0R exactly when
\* its totalCost is at most half of its totalRiskAmount.
LossAndScratchBuckets ==
  \A n \in 1..Len(tradeHistory) :
    LET t == tradeHistory[n]
    IN t.totalRiskAmount > 0 =>
         /\ t.result = "Loss" =>
              /\ t.totalCost > 0 => CountedIn(n) = {KeyWorst}
              /\ KeyLoss \in CountedIn(n) => t.totalCost = 0
         /\ t.result = "Scratch" =>
              (KeyScratch \in CountedIn(n) <=> 2 * t.totalCost <= t.totalRiskAmount)

\* a Loss with a cost, a Scratch whose cost is exactly half of its risk and a
\* Scratch whose cost is more: one each in Worst Case, 0R and -1R
CostDecidesTheBucket ==
  /\ Len(tradeHistory) = 3
  /\ \E a, b, c \in 1..3 :
       /\ tradeHistory[a].result = "Loss" /\ tradeHistory[a].totalCost > 0
       /\ tradeHistory[a].totalRiskAmount > 0
       /\ tradeHistory[b].result = "Scratch"
       /\ 2 * tradeHistory[b].totalCost = tradeHistory[b].totalRiskAmount
       /\ tradeHistory[b].totalCost > 0
       /\ tradeHistory[c].result = "Scratch"
       /\ 2 * tradeHistory[c].totalCost > tradeHistory[c].totalRiskAmount
       /\ CountedIn(a) = {KeyWorst}
       /\ CountedIn(b) = {KeyScratch}
       /\ CountedIn(c) = {KeyLoss}

====
